---- MODULE Spec2Model ----
(***************************************************************************)
(* MeroSign: multi-party document signing and milestone-funded agreements. *)
(*                                                                         *)
(* The repository holds three programs that share one data model:          *)
(*   - canisters/dao_agreement     the escrow canister (sequential         *)
(*                                 executor, asynchronous token transfer)  *)
(*   - canisters/merodocs_registry the signing registry canister           *)
(*   - logic/src/lib.rs            the replicated application logic        *)
(* The variable `artifact` says which of them a behaviour is a run of;     *)
(* each program only ever touches its own variables.                       *)
(***************************************************************************)
EXTENDS Integers, Sequences, FiniteSets, TLC

VARIABLES
    artifact,    \* "dao_agreement" | "merodocs_registry" | "logic_dao" | "logic_docs"
                 \* | "logic_private"
    state,       \* dao_agreement: the thread-local CanisterState
    calls,       \* dao_agreement: the execute_milestone calls, numbered by arrival
    transfers,   \* ledger collaborator: successful icrc1_transfer calls per memo
    response,    \* what the last completed update call returned
    is_private,       \* logic: MeroDocsState.is_private
    context_type,     \* logic: MeroDocsState.context_type
    dao_agreements,   \* logic: MeroDocsState.dao_agreements
    participants,         \* logic: MeroDocsState.participants
    permissions,          \* logic: MeroDocsState.permissions
    documents,            \* logic: MeroDocsState.documents
    document_signatures,  \* logic: MeroDocsState.document_signatures
    consents,             \* logic: MeroDocsState.consents
    joined_contexts,      \* logic: MeroDocsState.joined_contexts
    identity_mappings,    \* logic: MeroDocsState.identity_mappings
    CONTEXTS,       \* merodocs_registry: the stable map of ContextRecord
    DOCUMENTS,      \* merodocs_registry: the stable map of DocumentRecord
    AUDIT_TRAIL     \* merodocs_registry: the stable map of AuditTrail

daoVars == <<state, calls, transfers>>
logicDaoVars == <<is_private, context_type, dao_agreements>>
docsVars == <<participants, permissions, documents, document_signatures, consents>>
privateVars == <<joined_contexts, identity_mappings>>
registryVars == <<CONTEXTS, DOCUMENTS, AUDIT_TRAIL>>
vars == <<artifact, response, daoVars, logicDaoVars, docsVars, privateVars, registryVars>>

(***************************************************************************)
(* Bounds of the model.                                                    *)
(***************************************************************************)
MaxCalls == 2      \* execute_milestone calls of the escrow canister in one run
MaxAmount == 2     \* milestone amounts are 1..MaxAmount
MaxBalance == 4    \* restored escrow balances are 0..MaxBalance
MaxU128 == 7       \* stands for u128::MAX: amounts are kept modulo MaxU128 + 1
MaxParticipants == 4   \* participants of an agreement whose votes are tallied
MaxSignatures == 3     \* signatures pushed onto one document's vector
MaxAuditEntries == 6   \* entries an audit trail holds within its size bound

(***************************************************************************)
(* Values shared by the three programs.                                    *)
(***************************************************************************)
Principals == {"p1", "p2", "p3", "p4"}
Anonymous == "anonymous"
Ledger == "ledger"

MilestoneStatuses ==
    {"Pending", "ReadyForVoting", "VotingActive", "Approved", "Executed", "Rejected"}

EmptyMap == [x \in {} |-> 0]

\* HashMap / UnorderedMap insert: the key's earlier value is replaced.
Insert(map, key, value) == (key :> value) @@ map

\* Option<&V>::unwrap_or(&0) on a map of balances
GetOr0(map, key) == IF key \in DOMAIN map THEN map[key] ELSE 0

\* `iter().find(|m| m.id == id)` / `iter().position(..)`: the index of the
\* first element whose id matches, 0 when there is none.
Position(seq, id) ==
    IF \E i \in 1..Len(seq) : seq[i].id = id
    THEN CHOOSE i \in 1..Len(seq) :
            /\ seq[i].id = id
            /\ \A j \in 1..(i - 1) : seq[j].id # id
    ELSE 0

\* A uniqueness test that finds no duplicate.
HasDuplicateIds_Never(milestones) == FALSE

\* HashSet::insert over the ids, as create_agreement validates them
HasDuplicateIds(seq) ==
    \E i, j \in 1..Len(seq) : i < j /\ seq[i].id = seq[j].id

(***************************************************************************)
(* The quorum arithmetic of vote_milestone / vote_on_milestone.            *)
(***************************************************************************)
total_participants(agreement) == Cardinality(agreement.participants) + 1

required_votes(agreement) ==
    (total_participants(agreement) * agreement.voting_threshold + 99) \div 100

approval_votes(votes) == Cardinality({v \in DOMAIN votes : votes[v]})

rejection_votes(votes) == Cardinality({v \in DOMAIN votes : ~votes[v]})

\* The tally with the required count rounded down instead of up.
VoteOutcome_RoundedDown(agreement, votes) ==
    LET required == (total_participants(agreement) * agreement.voting_threshold) \div 100
    IN  IF approval_votes(votes) >= required
        THEN "Approved"
        ELSE IF rejection_votes(votes) > total_participants(agreement) - required
             THEN "Rejected"
             ELSE "VotingActive"

\* The status a milestone is left in once the vote has been inserted.
VoteOutcome(agreement, votes) ==
    IF approval_votes(votes) >= required_votes(agreement)
    THEN "Approved"
    ELSE IF rejection_votes(votes) >
                total_participants(agreement) - required_votes(agreement)
         THEN "Rejected"
         ELSE "VotingActive"

(***************************************************************************)
(* canisters/dao_agreement: the escrow canister.                           *)
(*                                                                         *)
(* The state is a RefCell.  A handler that calls add_event (which does     *)
(* borrow_mut) or is_participant / check_milestone_conditions (which do    *)
(* borrow) while it still holds its own borrow_mut panics; the canister    *)
(* traps and the message's changes are rolled back.                        *)
(***************************************************************************)
Trap == "Trap"
Ok == "Ok"

IdleCall ==
    [pc |-> "idle", agreement_id |-> "", milestone_id |-> 0,
     milestone_amount |-> 0, current_balance |-> 0, result |-> "none"]

CallIds == 1..MaxCalls

DaoAgreementIds == {"a1", "a2"}
DaoMilestoneIds == {1, 2, 3}
Memos == DaoAgreementIds \X DaoMilestoneIds

RestoredDocument ==
    [id |-> "d1", required_signers |-> {"p1", "p2"}, current_signers |-> {},
     is_signed_by_all |-> FALSE]

RestoredMilestone(id, type, amount, status) ==
    [id |-> id, milestone_type |-> type, amount |-> amount, status |-> status,
     votes |-> EmptyMap,
     completed_at |-> IF status = "Executed" THEN "Some" ELSE "None"]

\* A CanisterState as pre_upgrade saves it and post_upgrade restores it: one
\* agreement with two milestones, in any status, and its escrow balance.
RestoredStates ==
    { [agreements |->
          Insert(EmptyMap, "a1",
              [creator |-> "p1", participants |-> {"p2"},
               documents |-> <<RestoredDocument>>,
               milestones |->
                   << RestoredMilestone(1, "ManualApproval", am1, s1),
                      RestoredMilestone(2, "DocumentSignature", 1, s2) >>,
               voting_threshold |-> 60, status |-> "Active"]),
       agreement_balances |->
          IF bal = 0 THEN EmptyMap ELSE Insert(EmptyMap, "a1", bal),
       events |-> <<>>,
       ledger_canister_id |-> Ledger,
       admin |-> "p3"] :
      am1 \in 1..MaxAmount,
      s1 \in MilestoneStatuses, s2 \in {"Pending", "Approved"},
      bal \in 0..MaxBalance }

\* init(ledger_canister_id), called by the installer
FreshStates ==
    { [agreements |-> EmptyMap, agreement_balances |-> EmptyMap, events |-> <<>>,
       ledger_canister_id |-> lid, admin |-> "p3"] : lid \in {Anonymous, Ledger} }

\* The variables of the programs that are not running.
DaoIdle ==
    /\ state = [agreements |-> EmptyMap, agreement_balances |-> EmptyMap,
                events |-> <<>>, ledger_canister_id |-> Anonymous,
                admin |-> Anonymous]
    /\ calls = [c \in CallIds |-> IdleCall]
    /\ transfers = [m \in Memos |-> 0]

LogicDaoIdle ==
    /\ is_private = FALSE
    /\ context_type = "Default"
    /\ dao_agreements = EmptyMap
    /\ participants = {}
    /\ permissions = EmptyMap
    /\ documents = EmptyMap
    /\ document_signatures = EmptyMap
    /\ consents = EmptyMap
    /\ joined_contexts = EmptyMap
    /\ identity_mappings = EmptyMap

RegistryIdle ==
    /\ CONTEXTS = EmptyMap
    /\ DOCUMENTS = EmptyMap
    /\ AUDIT_TRAIL = EmptyMap

InitDao ==
    /\ artifact = "dao_agreement"
    /\ response = "none"
    /\ state \in FreshStates \cup RestoredStates
    /\ calls = [c \in CallIds |-> IdleCall]
    /\ transfers = [m \in Memos |-> 0]
    /\ LogicDaoIdle
    /\ RegistryIdle

is_participant(agreement_id, user) ==
    /\ agreement_id \in DOMAIN state.agreements
    /\ \/ state.agreements[agreement_id].creator = user
       \/ user \in state.agreements[agreement_id].participants
       \/ state.admin = user

Reply(r) == response' = r

DaoFrame == UNCHANGED <<artifact, state, calls, transfers, logicDaoVars, docsVars, registryVars, privateVars>>

\* create_agreement: every path that passes validation reaches add_event with
\* the state mutably borrowed.
create_agreement(caller, id, title, milestones, voting_threshold) ==
    /\ artifact = "dao_agreement"
    /\ DaoFrame
    /\ Reply(IF id = "" \/ title = ""
             THEN "Err: Agreement ID and title cannot be empty"
             ELSE IF voting_threshold < 50 \/ voting_threshold > 100
             THEN "Err: Voting threshold must be between 50-100%"
             ELSE IF milestones = <<>>
             THEN "Err: Agreement must have at least one milestone"
             ELSE IF HasDuplicateIds(milestones)
             THEN "Err: Duplicate milestone ID"
             ELSE IF id \in DOMAIN state.agreements
             THEN "Err: Agreement with this ID already exists"
             ELSE Trap)

\* add_participant (dao_agreement)
dao_add_participant(caller, agreement_id, participant) ==
    /\ artifact = "dao_agreement"
    /\ DaoFrame
    /\ Reply(IF agreement_id \notin DOMAIN state.agreements
             THEN "Err: Agreement not found"
             ELSE IF /\ caller # state.agreements[agreement_id].creator
                     /\ caller # state.admin
             THEN "Err: Only agreement creator or admin can add participants"
             ELSE IF participant \in state.agreements[agreement_id].participants
             THEN "Err: Participant already exists in agreement"
             ELSE Trap)

\* sign_document (dao_agreement)
dao_sign_document(caller, agreement_id, doc_id) ==
    /\ artifact = "dao_agreement"
    /\ DaoFrame
    /\ Reply(IF ~is_participant(agreement_id, caller)
             THEN "Err: Only agreement participants can sign documents"
             ELSE LET docs == state.agreements[agreement_id].documents
                      d == Position(docs, doc_id)
                  IN  IF d = 0
                      THEN "Err: Document not found"
                      ELSE IF caller \notin docs[d].required_signers
                      THEN "Err: You are not required to sign this document"
                      ELSE Trap)

\* fund_agreement: is_participant is called under the mutable borrow.
fund_agreement(caller, agreement_id, amount) ==
    /\ artifact = "dao_agreement"
    /\ DaoFrame
    /\ Reply(IF amount = 0
             THEN "Err: Amount must be greater than zero"
             ELSE Trap)

\* vote_milestone
vote_milestone(caller, agreement_id, milestone_id, approve) ==
    /\ artifact = "dao_agreement"
    /\ DaoFrame
    /\ Reply(IF ~is_participant(agreement_id, caller)
             THEN "Err: Only agreement participants can vote"
             ELSE LET milestones == state.agreements[agreement_id].milestones
                      m == Position(milestones, milestone_id)
                  IN  IF m = 0
                      THEN "Err: Milestone not found"
                      ELSE IF milestones[m].status \notin
                                  {"ReadyForVoting", "VotingActive"}
                      THEN "Err: Milestone is not ready for voting"
                      ELSE Trap)

\* set_ledger_canister_id
set_ledger_canister_id(caller, canister_id) ==
    /\ artifact = "dao_agreement"
    /\ IF caller # state.admin
       THEN /\ Reply("Err: Only admin can set ledger canister ID")
            /\ DaoFrame
       ELSE /\ state' = [state EXCEPT !.ledger_canister_id = canister_id]
            /\ Reply(Ok)
            /\ UNCHANGED <<artifact, calls, transfers, logicDaoVars, docsVars, registryVars, privateVars>>

Done(c, result) == [calls EXCEPT ![c].pc = "done", ![c].result = result]

\* execute_milestone up to the await inside transfer_tokens: the synchronous
\* checks, and the values the call keeps across the suspension.
execute_milestone_begin(c, agreement_id, milestone_id) ==
    /\ artifact = "dao_agreement"
    /\ calls[c].pc = "idle"
    /\ \A b \in CallIds : b < c => calls[b].pc # "idle"
    /\ UNCHANGED <<artifact, state, transfers, response, logicDaoVars, docsVars, registryVars, privateVars>>
    /\ IF agreement_id \notin DOMAIN state.agreements
       THEN calls' = Done(c, "Err: Agreement not found")
       ELSE
       LET milestones == state.agreements[agreement_id].milestones
           m == Position(milestones, milestone_id)
           current_balance == GetOr0(state.agreement_balances, agreement_id)
       IN  IF m = 0
           THEN calls' = Done(c, "Err: Milestone not found")
           ELSE IF milestones[m].status # "Approved"
           THEN calls' = Done(c, "Err: Milestone is not approved for execution")
           ELSE IF current_balance < milestones[m].amount
           THEN calls' = Done(c, "Err: Insufficient escrow balance")
           ELSE IF state.ledger_canister_id = Anonymous
           THEN \* transfer_tokens returns before any call is made
                calls' = Done(c, "Err: Transfer failed")
           ELSE calls' = [calls EXCEPT ![c] =
                    [pc |-> "awaiting", agreement_id |-> agreement_id,
                     milestone_id |-> milestone_id,
                     milestone_amount |-> milestones[m].amount,
                     current_balance |-> current_balance,
                     result |-> "none"]]

\* The write-back of a successful execution.
ExecuteCommit(st, call) ==
    LET a == call.agreement_id
        m == Position(st.agreements[a].milestones, call.milestone_id)
        new_balance == call.current_balance - call.milestone_amount
    IN  [st EXCEPT
            !.agreements[a].milestones[m].status = "Executed",
            !.agreements[a].milestones[m].completed_at = "Some",
            !.agreement_balances = Insert(@, a, new_balance),
            !.events = Append(@, "execute_milestone")]

\* The ledger's reply arrives and the call resumes.
execute_milestone_resume(c, reply) ==
    /\ artifact = "dao_agreement"
    /\ calls[c].pc = "awaiting"
    /\ UNCHANGED <<artifact, response, logicDaoVars, docsVars, registryVars, privateVars>>
    /\ IF reply = "Ok"
       THEN /\ transfers' =
                  [transfers EXCEPT
                      ![<<calls[c].agreement_id, calls[c].milestone_id>>] = @ + 1]
            /\ state' = ExecuteCommit(state, calls[c])
            /\ calls' = Done(c, Ok)
       ELSE /\ calls' = Done(c, "Err: Transfer failed")
            /\ UNCHANGED <<state, transfers>>

DaoMilestoneInput == RestoredMilestone(1, "ManualApproval", 1, "Pending")

\* The create_agreement requests tried: one per validation rule, one that
\* collides with a stored agreement and one that passes every check.
CreateAgreementRequests ==
    { [id |-> "",   title |-> "t", milestones |-> <<DaoMilestoneInput>>, voting_threshold |-> 60],
      [id |-> "a2", title |-> "",  milestones |-> <<DaoMilestoneInput>>, voting_threshold |-> 60],
      [id |-> "a2", title |-> "t", milestones |-> <<DaoMilestoneInput>>, voting_threshold |-> 49],
      [id |-> "a2", title |-> "t", milestones |-> <<DaoMilestoneInput>>, voting_threshold |-> 101],
      [id |-> "a2", title |-> "t", milestones |-> <<>>, voting_threshold |-> 60],
      [id |-> "a2", title |-> "t",
       milestones |-> <<DaoMilestoneInput, DaoMilestoneInput>>, voting_threshold |-> 60],
      [id |-> "a1", title |-> "t", milestones |-> <<DaoMilestoneInput>>, voting_threshold |-> 60],
      [id |-> "a2", title |-> "t", milestones |-> <<DaoMilestoneInput>>, voting_threshold |-> 100] }

NextDao ==
    \/ \E r \in CreateAgreementRequests :
          create_agreement("p1", r.id, r.title, r.milestones, r.voting_threshold)
    \/ \E caller \in {"p1", "p4"}, id \in DaoAgreementIds, p \in {"p2", "p4"} :
          dao_add_participant(caller, id, p)
    \/ \E caller \in {"p2", "p3", "p4"}, d \in {"d1", "d2"} :
          dao_sign_document(caller, "a1", d)
    \/ \E caller \in {"p1", "p4"}, amount \in {0, 1} :
          fund_agreement(caller, "a1", amount)
    \/ \E caller \in {"p2", "p3", "p4"}, m \in DaoMilestoneIds, approve \in BOOLEAN :
          vote_milestone(caller, "a1", m, approve)
    \/ \E caller \in {"p1", "p3"}, lid \in {Anonymous, Ledger} :
          set_ledger_canister_id(caller, lid)
    \/ \E c \in CallIds, id \in DaoAgreementIds, m \in DaoMilestoneIds :
          execute_milestone_begin(c, id, m)
    \/ \E c \in CallIds, reply \in {"Ok", "Err", "Reject"} :
          execute_milestone_resume(c, reply)

SpecDao == InitDao /\ [][NextDao]_vars

(***************************************************************************)
(* logic/src/lib.rs: the DAO agreement operations of MeroDocsState.        *)
(*                                                                         *)
(* Every call acts as `self.owner`, the identity stored by init.           *)
(***************************************************************************)
owner == "p1"

\* format!("{:?}", user_id): the string under which participants and voters
\* are stored; a string is never equal to the UserId it was made from.
DebugFmt(user_id) == <<"UserId", user_id>>

Milestone(id, amount, status, votes) ==
    [id |-> id, milestone_type |-> "ManualApproval", amount |-> amount,
     status |-> status, votes |-> votes,
     completed_at |-> IF status = "Executed" THEN "Some" ELSE "None"]

\* init: the state a context starts in.  The creator of a shared context is
\* a participant with Admin permission.
init(private) ==
    /\ is_private = private
    /\ context_type = "Default"
    /\ dao_agreements = EmptyMap
    /\ participants = IF private THEN {} ELSE {owner}
    /\ permissions = IF private THEN EmptyMap
                     ELSE Insert(EmptyMap, DebugFmt(owner), "Admin")
    /\ documents = EmptyMap
    /\ document_signatures = EmptyMap
    /\ consents = EmptyMap
    /\ joined_contexts = EmptyMap
    /\ identity_mappings = EmptyMap

InitLogicDao ==
    /\ artifact = "logic_dao"
    /\ response = "none"
    /\ DaoIdle
    /\ RegistryIdle
    /\ \E private \in BOOLEAN : init(private)

LogicDaoFrame == UNCHANGED <<artifact, daoVars, is_private, docsVars, registryVars, privateVars>>

NotDaoContext == "Err: This context is not configured for DAO agreements"

\* initialize_dao_context
initialize_dao_context ==
    /\ artifact = "logic_dao"
    /\ LogicDaoFrame
    /\ UNCHANGED dao_agreements
    /\ IF is_private
       THEN /\ Reply("Err: DAO context can only be initialized in shared context")
            /\ UNCHANGED context_type
       ELSE /\ context_type' = "DaoAgreement"
            /\ Reply(Ok)

RECURSIVE SumAmounts(_)
SumAmounts(milestones) ==
    IF milestones = <<>> THEN 0
    ELSE Head(milestones).amount + SumAmounts(Tail(milestones))

\* The record create_dao_agreement stores.
NewDaoAgreement(agreement_id, participant_ids, milestones, voting_threshold, total_funding) ==
    [id |-> agreement_id, creator |-> owner,
     participants |-> {DebugFmt(p) : p \in participant_ids},
     milestones |-> milestones, voting_threshold |-> voting_threshold,
     status |-> "Active", total_funding |-> total_funding,
     remaining_balance |-> 0]

\* create_dao_agreement.  `milestones.iter().map(|m| m.amount).sum()` is a
\* u128 sum: on overflow it panics when the build checks overflow
\* (overflow_checks) and wraps when it does not.
create_dao_agreement(agreement_id, title, participant_ids, milestones, voting_threshold, total_funding, overflow_checks) ==
    /\ artifact = "logic_dao"
    /\ LogicDaoFrame
    /\ UNCHANGED context_type
    /\ LET sum == SumAmounts(milestones)
           total_milestone_amount == sum % (MaxU128 + 1)
           failure ==
               IF context_type # "DaoAgreement" THEN NotDaoContext
               ELSE IF agreement_id = "" \/ title = ""
               THEN "Err: Agreement ID and title cannot be empty"
               ELSE IF voting_threshold < 50 \/ voting_threshold > 100
               THEN "Err: Voting threshold must be between 50-100%"
               ELSE IF milestones = <<>>
               THEN "Err: Agreement must have at least one milestone"
               ELSE IF total_funding = 0
               THEN "Err: Total funding must be greater than zero"
               ELSE IF HasDuplicateIds(milestones)
               THEN "Err: Duplicate milestone ID"
               ELSE IF sum > MaxU128 /\ overflow_checks
               THEN Trap
               ELSE IF total_milestone_amount > total_funding
               THEN "Err: Total milestone amounts exceed total funding"
               ELSE IF agreement_id \in DOMAIN dao_agreements
               THEN "Err: Agreement with this ID already exists"
               ELSE "none"
       IN  IF failure # "none"
           THEN Reply(failure) /\ UNCHANGED dao_agreements
           ELSE /\ dao_agreements' =
                      Insert(dao_agreements, agreement_id,
                             NewDaoAgreement(agreement_id, participant_ids, milestones,
                                             voting_threshold, total_funding))
                /\ Reply(Ok)

\* add_milestone_to_agreement
add_milestone_to_agreement(agreement_id, milestone) ==
    /\ artifact = "logic_dao"
    /\ LogicDaoFrame
    /\ UNCHANGED context_type
    /\ IF context_type # "DaoAgreement"
       THEN Reply(NotDaoContext) /\ UNCHANGED dao_agreements
       ELSE IF agreement_id \notin DOMAIN dao_agreements
       THEN Reply("Err: DAO Agreement not found") /\ UNCHANGED dao_agreements
       ELSE IF Position(dao_agreements[agreement_id].milestones, milestone.id) # 0
       THEN Reply("Err: Milestone with this ID already exists")
            /\ UNCHANGED dao_agreements
       ELSE /\ dao_agreements' =
                  [dao_agreements EXCEPT
                      ![agreement_id].milestones = Append(@, milestone)]
            /\ Reply(Ok)

\* `creator != self.owner && !participants.contains(&caller_str)`
NotAParticipant(agreement) ==
    /\ agreement.creator # owner
    /\ DebugFmt(owner) \notin agreement.participants

\* A deposit that is credited to the balance but not to the funding total.
FundedAgreement_BalanceOnly(agreement, amount) ==
    [agreement EXCEPT !.remaining_balance = @ + amount]

\* The agreement fund_dao_agreement writes back.
FundedAgreement(agreement, amount) ==
    [agreement EXCEPT !.total_funding = @ + amount,
                      !.remaining_balance = @ + amount]

\* A deposit that is credited to every stored agreement.
fund_dao_agreement_EveryAgreement(agreement_id, amount) ==
    /\ artifact = "logic_dao"
    /\ LogicDaoFrame
    /\ UNCHANGED context_type
    /\ IF context_type # "DaoAgreement"
       THEN Reply(NotDaoContext) /\ UNCHANGED dao_agreements
       ELSE IF amount = 0
       THEN Reply("Err: Amount must be greater than zero")
            /\ UNCHANGED dao_agreements
       ELSE IF agreement_id \notin DOMAIN dao_agreements
       THEN Reply("Err: DAO Agreement not found") /\ UNCHANGED dao_agreements
       ELSE IF NotAParticipant(dao_agreements[agreement_id])
       THEN Reply("Err: Only agreement participants can fund this agreement")
            /\ UNCHANGED dao_agreements
       ELSE IF dao_agreements[agreement_id].total_funding + amount > MaxU128
       THEN Reply("Err: Total funding overflow") /\ UNCHANGED dao_agreements
       ELSE IF dao_agreements[agreement_id].remaining_balance + amount > MaxU128
       THEN Reply("Err: Balance overflow") /\ UNCHANGED dao_agreements
       ELSE /\ dao_agreements' =
                  [a \in DOMAIN dao_agreements |->
                      FundedAgreement(dao_agreements[a], amount)]
            /\ Reply(Ok)

\* A deposit added with wrapping additions instead of checked_add.
fund_dao_agreement_Wrapping(agreement_id, amount) ==
    /\ artifact = "logic_dao"
    /\ LogicDaoFrame
    /\ UNCHANGED context_type
    /\ IF context_type # "DaoAgreement"
       THEN Reply(NotDaoContext) /\ UNCHANGED dao_agreements
       ELSE IF amount = 0
       THEN Reply("Err: Amount must be greater than zero")
            /\ UNCHANGED dao_agreements
       ELSE IF agreement_id \notin DOMAIN dao_agreements
       THEN Reply("Err: DAO Agreement not found") /\ UNCHANGED dao_agreements
       ELSE IF NotAParticipant(dao_agreements[agreement_id])
       THEN Reply("Err: Only agreement participants can fund this agreement")
            /\ UNCHANGED dao_agreements
       ELSE /\ dao_agreements' =
                  [dao_agreements EXCEPT
                      ![agreement_id].total_funding =
                          (@ + amount) % (MaxU128 + 1),
                      ![agreement_id].remaining_balance =
                          (@ + amount) % (MaxU128 + 1)]
            /\ Reply(Ok)

\* fund_dao_agreement
fund_dao_agreement(agreement_id, amount) ==
    /\ artifact = "logic_dao"
    /\ LogicDaoFrame
    /\ UNCHANGED context_type
    /\ IF context_type # "DaoAgreement"
       THEN Reply(NotDaoContext) /\ UNCHANGED dao_agreements
       ELSE IF amount = 0
       THEN Reply("Err: Amount must be greater than zero")
            /\ UNCHANGED dao_agreements
       ELSE IF agreement_id \notin DOMAIN dao_agreements
       THEN Reply("Err: DAO Agreement not found") /\ UNCHANGED dao_agreements
       ELSE IF NotAParticipant(dao_agreements[agreement_id])
       THEN Reply("Err: Only agreement participants can fund this agreement")
            /\ UNCHANGED dao_agreements
       ELSE IF dao_agreements[agreement_id].total_funding + amount > MaxU128
       THEN Reply("Err: Total funding overflow") /\ UNCHANGED dao_agreements
       ELSE IF dao_agreements[agreement_id].remaining_balance + amount > MaxU128
       THEN Reply("Err: Balance overflow") /\ UNCHANGED dao_agreements
       ELSE /\ dao_agreements' =
                  [dao_agreements EXCEPT
                      ![agreement_id] = FundedAgreement(@, amount)]
            /\ Reply(Ok)

\* A vote that leaves the voter's earlier vote in place.
VotedAgreement_FirstVoteKept(agreement, m, voter, approve) ==
    LET old == agreement.milestones[m].votes
        votes == IF voter \in DOMAIN old THEN old ELSE Insert(old, voter, approve)
    IN  [agreement EXCEPT
            !.milestones[m].votes = votes,
            !.milestones[m].status = VoteOutcome(agreement, votes)]

\* The agreement vote_on_milestone writes back: the caller's vote replaces the
\* earlier one and the status follows from the tally.
VotedAgreement(agreement, m, voter, approve) ==
    LET votes == Insert(agreement.milestones[m].votes, voter, approve)
    IN  [agreement EXCEPT
            !.milestones[m].votes = votes,
            !.milestones[m].status = VoteOutcome(agreement, votes)]

VoteReply(status) ==
    IF status = "Approved" THEN "Ok: Milestone approved by DAO vote"
    ELSE IF status = "Rejected" THEN "Ok: Milestone rejected by DAO vote"
    ELSE "Ok: Vote recorded, waiting for more votes"

\* A vote that is recorded whatever the milestone's status.
vote_on_milestone_AnyStatus(agreement_id, milestone_id, approve) ==
    /\ artifact = "logic_dao"
    /\ LogicDaoFrame
    /\ UNCHANGED context_type
    /\ IF context_type # "DaoAgreement"
       THEN Reply(NotDaoContext) /\ UNCHANGED dao_agreements
       ELSE IF agreement_id \notin DOMAIN dao_agreements
       THEN Reply("Err: DAO Agreement not found") /\ UNCHANGED dao_agreements
       ELSE IF NotAParticipant(dao_agreements[agreement_id])
       THEN Reply("Err: Only agreement participants can vote")
            /\ UNCHANGED dao_agreements
       ELSE
       LET agreement == dao_agreements[agreement_id]
           m == Position(agreement.milestones, milestone_id)
       IN  IF m = 0
           THEN Reply("Err: Milestone not found") /\ UNCHANGED dao_agreements
           ELSE LET voted == VotedAgreement(agreement, m, DebugFmt(owner), approve)
                IN  /\ dao_agreements' =
                           [dao_agreements EXCEPT ![agreement_id] = voted]
                    /\ Reply(VoteReply(voted.milestones[m].status))

\* A vote that is also accepted on a Rejected milestone.
vote_on_milestone_Reopening(agreement_id, milestone_id, approve) ==
    /\ artifact = "logic_dao"
    /\ LogicDaoFrame
    /\ UNCHANGED context_type
    /\ IF context_type # "DaoAgreement"
       THEN Reply(NotDaoContext) /\ UNCHANGED dao_agreements
       ELSE IF agreement_id \notin DOMAIN dao_agreements
       THEN Reply("Err: DAO Agreement not found") /\ UNCHANGED dao_agreements
       ELSE IF NotAParticipant(dao_agreements[agreement_id])
       THEN Reply("Err: Only agreement participants can vote")
            /\ UNCHANGED dao_agreements
       ELSE
       LET agreement == dao_agreements[agreement_id]
           m == Position(agreement.milestones, milestone_id)
       IN  IF m = 0
           THEN Reply("Err: Milestone not found") /\ UNCHANGED dao_agreements
           ELSE IF agreement.milestones[m].status \notin
                       {"ReadyForVoting", "VotingActive", "Rejected"}
           THEN Reply("Err: Milestone is not ready for voting")
                /\ UNCHANGED dao_agreements
           ELSE LET voted == VotedAgreement(agreement, m, DebugFmt(owner), approve)
                IN  /\ dao_agreements' =
                           [dao_agreements EXCEPT ![agreement_id] = voted]
                    /\ Reply(VoteReply(voted.milestones[m].status))

\* vote_on_milestone
vote_on_milestone(agreement_id, milestone_id, approve) ==
    /\ artifact = "logic_dao"
    /\ LogicDaoFrame
    /\ UNCHANGED context_type
    /\ IF context_type # "DaoAgreement"
       THEN Reply(NotDaoContext) /\ UNCHANGED dao_agreements
       ELSE IF agreement_id \notin DOMAIN dao_agreements
       THEN Reply("Err: DAO Agreement not found") /\ UNCHANGED dao_agreements
       ELSE IF NotAParticipant(dao_agreements[agreement_id])
       THEN Reply("Err: Only agreement participants can vote")
            /\ UNCHANGED dao_agreements
       ELSE
       LET agreement == dao_agreements[agreement_id]
           m == Position(agreement.milestones, milestone_id)
       IN  IF m = 0
           THEN Reply("Err: Milestone not found") /\ UNCHANGED dao_agreements
           ELSE IF agreement.milestones[m].status \notin
                       {"ReadyForVoting", "VotingActive"}
           THEN Reply("Err: Milestone is not ready for voting")
                /\ UNCHANGED dao_agreements
           ELSE LET voted == VotedAgreement(agreement, m, DebugFmt(owner), approve)
                IN  /\ dao_agreements' =
                           [dao_agreements EXCEPT ![agreement_id] = voted]
                    /\ Reply(VoteReply(voted.milestones[m].status))

\* The agreement execute_milestone writes back.
ExecutedAgreement(agreement, m) ==
    [agreement EXCEPT
        !.milestones[m].status = "Executed",
        !.milestones[m].completed_at = "Some",
        !.remaining_balance = @ - agreement.milestones[m].amount]

\* An execution that pays without comparing the amount with the balance.
execute_milestone_Unfunded(agreement_id, milestone_id) ==
    /\ artifact = "logic_dao"
    /\ LogicDaoFrame
    /\ UNCHANGED context_type
    /\ IF context_type # "DaoAgreement"
       THEN Reply(NotDaoContext) /\ UNCHANGED dao_agreements
       ELSE IF agreement_id \notin DOMAIN dao_agreements
       THEN Reply("Err: DAO Agreement not found") /\ UNCHANGED dao_agreements
       ELSE
       LET agreement == dao_agreements[agreement_id]
           m == Position(agreement.milestones, milestone_id)
       IN  IF m = 0
           THEN Reply("Err: Milestone not found") /\ UNCHANGED dao_agreements
           ELSE IF agreement.milestones[m].status # "Approved"
           THEN Reply("Err: Milestone is not approved for execution")
                /\ UNCHANGED dao_agreements
           ELSE /\ dao_agreements' =
                      [dao_agreements EXCEPT
                          ![agreement_id] = ExecutedAgreement(@, m)]
                /\ Reply(Ok)

\* execute_milestone (logic): the payment is simulated, there is no await.
execute_milestone(agreement_id, milestone_id) ==
    /\ artifact = "logic_dao"
    /\ LogicDaoFrame
    /\ UNCHANGED context_type
    /\ IF context_type # "DaoAgreement"
       THEN Reply(NotDaoContext) /\ UNCHANGED dao_agreements
       ELSE IF agreement_id \notin DOMAIN dao_agreements
       THEN Reply("Err: DAO Agreement not found") /\ UNCHANGED dao_agreements
       ELSE
       LET agreement == dao_agreements[agreement_id]
           m == Position(agreement.milestones, milestone_id)
       IN  IF m = 0
           THEN Reply("Err: Milestone not found") /\ UNCHANGED dao_agreements
           ELSE IF agreement.milestones[m].status # "Approved"
           THEN Reply("Err: Milestone is not approved for execution")
                /\ UNCHANGED dao_agreements
           ELSE IF agreement.remaining_balance < agreement.milestones[m].amount
           THEN Reply("Err: Insufficient escrow balance")
                /\ UNCHANGED dao_agreements
           ELSE /\ dao_agreements' =
                      [dao_agreements EXCEPT
                          ![agreement_id] = ExecutedAgreement(@, m)]
                /\ Reply(Ok)

MsVoteAndPay ==
    << Milestone(1, 1, "ReadyForVoting", EmptyMap),
       Milestone(2, 2, "Approved", EmptyMap) >>
MsPay == << Milestone(1, 2, "Approved", EmptyMap) >>
MsSmall == << Milestone(1, 1, "Approved", EmptyMap) >>
MsOverflow ==
    << Milestone(1, MaxU128, "Approved", EmptyMap),
       Milestone(2, 1, "Approved", EmptyMap) >>

Request(id, title, participant_ids, milestones, voting_threshold, total_funding) ==
    [id |-> id, title |-> title, participants |-> participant_ids,
     milestones |-> milestones, voting_threshold |-> voting_threshold,
     total_funding |-> total_funding]

\* The create_dao_agreement requests tried: accepted ones, and one for each
\* validation rule.
CreateDaoRequests ==
    { Request("a1", "t", {"p2"}, MsVoteAndPay, 60, 3),
      Request("a1", "t", {}, MsPay, 50, 2),
      Request("a2", "t", {}, MsSmall, 100, 1),
      Request("", "t", {}, MsPay, 60, 2),
      Request("a2", "", {}, MsPay, 60, 2),
      Request("a2", "t", {}, MsPay, 49, 2),
      Request("a2", "t", {}, MsPay, 101, 2),
      Request("a2", "t", {}, <<>>, 60, 2),
      Request("a2", "t", {}, MsPay, 60, 0),
      Request("a2", "t", {}, MsPay \o MsPay, 60, MaxU128),
      Request("a2", "t", {}, MsVoteAndPay, 60, 2),
      Request("a1", "t", {}, MsOverflow, 60, 1) }

AddMilestoneInputs ==
    { Milestone(1, 1, "Approved", EmptyMap),
      Milestone(3, 1, "Approved", EmptyMap) }

FundInputs ==
    { <<"a1", 0>>, <<"a1", 2>>, <<"a1", MaxU128>>, <<"a2", MaxU128 - 1>>,
      <<"a3", 1>> }

NextLogicDao ==
    \/ initialize_dao_context
    \/ \E r \in CreateDaoRequests, overflow_checks \in BOOLEAN :
          create_dao_agreement(r.id, r.title, r.participants, r.milestones,
                               r.voting_threshold, r.total_funding, overflow_checks)
    \/ \E id \in {"a1", "a3"}, ms \in AddMilestoneInputs :
          add_milestone_to_agreement(id, ms)
    \/ \E f \in FundInputs : fund_dao_agreement(f[1], f[2])
    \/ \E id \in {"a1", "a3"}, m \in DaoMilestoneIds, approve \in BOOLEAN :
          vote_on_milestone(id, m, approve)
    \/ \E id \in {"a1", "a2", "a3"}, m \in {1, 2, 4} :
          execute_milestone(id, m)

SpecLogicDao == InitLogicDao /\ [][NextLogicDao]_vars

(***************************************************************************)
(* The quorum decision on its own: the store holds one agreement as        *)
(* create_dao_agreement stores it (participants, threshold and the         *)
(* milestone with its vote map are the caller's), and votes are cast.      *)
(***************************************************************************)
LogicUsers == << "p2", "p3", "p4", "p5", "p6", "p7" >>

\* The first n users, as a participant list
FirstUsers(n) == { LogicUsers[i] : i \in 1..n }

\* The vote maps over the creator and the users; a user who is not a
\* participant of the agreement may have a vote in the map
VoteMaps(users) ==
    LET keys == { DebugFmt(u) : u \in users \cup {owner} }
    IN  UNION { [d -> BOOLEAN] : d \in SUBSET keys }

\* The agreements voted on: every participant count and threshold, one
\* milestone open for voting -- ReadyForVoting without votes, VotingActive
\* with the votes cast so far.
VoteAgreements(agreement_id) ==
    { NewDaoAgreement(agreement_id, FirstUsers(n),
                      << Milestone(1, 1,
                                   IF DOMAIN votes = {} THEN "ReadyForVoting"
                                                        ELSE "VotingActive",
                                   votes) >>, threshold, 1) :
        n \in 0..MaxParticipants, threshold \in 50..100,
        votes \in VoteMaps(FirstUsers(MaxParticipants)) }

InitVote ==
    /\ artifact = "logic_dao"
    /\ response = "none"
    /\ DaoIdle
    /\ RegistryIdle
    /\ is_private = FALSE
    /\ context_type = "DaoAgreement"
    /\ dao_agreements \in { Insert(EmptyMap, "a1", ag) : ag \in VoteAgreements("a1") }
    /\ participants = {owner}
    /\ permissions = Insert(EmptyMap, DebugFmt(owner), "Admin")
    /\ documents = EmptyMap
    /\ document_signatures = EmptyMap
    /\ consents = EmptyMap
    /\ joined_contexts = EmptyMap
    /\ identity_mappings = EmptyMap

NextVote ==
    \E m \in {1, 2}, approve \in BOOLEAN : vote_on_milestone("a1", m, approve)

SpecVote == InitVote /\ [][NextVote]_vars

(***************************************************************************)
(* The replicated logic: documents, consent and signatures of a shared     *)
(* context (logic/src/lib.rs).                                             *)
(***************************************************************************)
DocumentIds == {"d1", "d2"}

\* The users of a shared context: its creator and two others
DocUsers == {owner, "p2", "p3"}

\* parse_blob_id_base58 accepts the strings that decode to 32 bytes.
ValidBlobIds == {"blob0", "blob1"}

parse_blob_id_base58(blob_id_str) ==
    IF blob_id_str \in ValidBlobIds THEN Ok ELSE "Err: Invalid blob ID"

\* format!("{:?}|{}", user_id, document_id)
ConsentKey(user_id, document_id) == << DebugFmt(user_id), "|", document_id >>

\* has_consented
has_consented(user_id, document_id) ==
    IF ConsentKey(user_id, document_id) \in DOMAIN consents
    THEN consents[ConsentKey(user_id, document_id)]
    ELSE FALSE

\* validate_admin_permissions: Ok or the error it returns
validate_admin_permissions ==
    IF is_private
    THEN "Err: This method can only be called from shared context"
    ELSE IF DebugFmt(owner) \notin DOMAIN permissions
    THEN "Err: User permissions not found"
    ELSE IF permissions[DebugFmt(owner)] # "Admin"
    THEN "Err: Admin permissions required for this operation"
    ELSE Ok

\* `document_signatures.get(&document_id)?.unwrap_or_else(|| Vector::new())`
SignaturesOf(document_id) ==
    IF document_id \in DOMAIN document_signatures
    THEN document_signatures[document_id]
    ELSE << >>

\* the signers of a vector of DocumentSignature
Signers(signatures) == { signatures[i].signer : i \in 1..Len(signatures) }

\* UnorderedMap::remove
Remove(map, key) == [k \in DOMAIN map \ {key} |-> map[k]]

LogicDocsFrame == UNCHANGED <<artifact, daoVars, registryVars, logicDaoVars, privateVars>>

\* upload_document; document_id stands for format!("doc_{}_{}", time, name)
upload_document(document_id, hash, pdf_blob_id_str) ==
    /\ artifact = "logic_docs"
    /\ LogicDocsFrame
    /\ UNCHANGED <<participants, permissions, consents>>
    /\ IF document_id \in DOMAIN documents
       THEN Reply("Err: Document with this ID already exists")
            /\ UNCHANGED <<documents, document_signatures>>
       ELSE IF parse_blob_id_base58(pdf_blob_id_str) # Ok
       THEN Reply(parse_blob_id_base58(pdf_blob_id_str))
            /\ UNCHANGED <<documents, document_signatures>>
       ELSE /\ documents' =
                  Insert(documents, document_id,
                         [id |-> document_id, hash |-> hash, uploaded_by |-> owner,
                          status |-> "Pending", pdf_blob_id |-> pdf_blob_id_str])
            /\ document_signatures' = Insert(document_signatures, document_id, << >>)
            /\ Reply(Ok)

\* delete_document
delete_document(document_id) ==
    /\ artifact = "logic_docs"
    /\ LogicDocsFrame
    /\ UNCHANGED <<participants, permissions, consents>>
    /\ IF validate_admin_permissions # Ok
       THEN Reply(validate_admin_permissions)
            /\ UNCHANGED <<documents, document_signatures>>
       ELSE IF document_id \notin DOMAIN documents
       THEN Reply("Err: Document not found: id")
            /\ UNCHANGED <<documents, document_signatures>>
       ELSE /\ documents' = Remove(documents, document_id)
            /\ document_signatures' = Remove(document_signatures, document_id)
            /\ Reply(Ok)

\* set_consent
set_consent(user_id, document_id) ==
    /\ artifact = "logic_docs"
    /\ LogicDocsFrame
    /\ UNCHANGED <<participants, permissions, documents, document_signatures>>
    /\ consents' = Insert(consents, ConsentKey(user_id, document_id), TRUE)
    /\ Reply(Ok)

ConsentRequiredToSign == "Err: User must provide consent before signing this document"

\* sign_document (logic)
sign_document(document_id, pdf_blob_id_str, new_hash, signer_id) ==
    /\ artifact = "logic_docs"
    /\ Len(SignaturesOf(document_id)) < MaxSignatures
    /\ LogicDocsFrame
    /\ UNCHANGED <<participants, permissions, consents>>
    /\ IF ~has_consented(signer_id, document_id)
       THEN Reply(ConsentRequiredToSign)
            /\ UNCHANGED <<documents, document_signatures>>
       ELSE IF document_id \notin DOMAIN documents
       THEN Reply("Err: Document not found")
            /\ UNCHANGED <<documents, document_signatures>>
       ELSE IF parse_blob_id_base58(pdf_blob_id_str) # Ok
       THEN Reply(parse_blob_id_base58(pdf_blob_id_str))
            /\ UNCHANGED <<documents, document_signatures>>
       ELSE /\ documents' =
                  [documents EXCEPT ![document_id].pdf_blob_id = pdf_blob_id_str,
                                    ![document_id].hash = new_hash,
                                    ![document_id].status = "PartiallySigned"]
            /\ document_signatures' =
                  Insert(document_signatures, document_id,
                         Append(SignaturesOf(document_id), [signer |-> signer_id]))
            /\ Reply(Ok)

\* mark_participant_signed
mark_participant_signed(document_id, user_id) ==
    /\ artifact = "logic_docs"
    /\ LogicDocsFrame
    /\ UNCHANGED <<participants, permissions, consents, document_signatures>>
    /\ IF ~has_consented(user_id, document_id)
       THEN Reply("Err: User must provide consent before being marked as signed")
            /\ UNCHANGED documents
       ELSE IF document_id \notin DOMAIN documents
       THEN Reply("Err: Document not found") /\ UNCHANGED documents
       ELSE IF user_id \notin Signers(SignaturesOf(document_id))
       THEN Reply("Err: User has not signed this document yet")
            /\ UNCHANGED documents
       ELSE /\ documents' =
                  IF participants \subseteq Signers(SignaturesOf(document_id))
                  THEN [documents EXCEPT ![document_id].status = "FullySigned"]
                  ELSE documents
            /\ Reply(Ok)

\* add_participant
add_participant(user_id, permission) ==
    /\ artifact = "logic_docs"
    /\ LogicDocsFrame
    /\ UNCHANGED <<consents, document_signatures>>
    /\ IF validate_admin_permissions # Ok
       THEN Reply(validate_admin_permissions)
            /\ UNCHANGED <<participants, permissions, documents>>
       ELSE IF user_id \in participants
       THEN Reply("Err: User is already a participant")
            /\ UNCHANGED <<participants, permissions, documents>>
       ELSE /\ participants' = participants \cup {user_id}
            /\ permissions' = Insert(permissions, DebugFmt(user_id), permission)
            /\ documents' =
                  IF permission = "Sign"
                  THEN [d \in DOMAIN documents |->
                          IF documents[d].status = "FullySigned"
                          THEN [documents[d] EXCEPT !.status = "PartiallySigned"]
                          ELSE documents[d]]
                  ELSE documents
            /\ Reply(Ok)

\* remove_participant
remove_participant(user_id) ==
    /\ artifact = "logic_docs"
    /\ LogicDocsFrame
    /\ UNCHANGED <<consents, document_signatures, documents>>
    /\ IF validate_admin_permissions # Ok
       THEN Reply(validate_admin_permissions)
            /\ UNCHANGED <<participants, permissions>>
       ELSE IF user_id \notin participants
       THEN Reply("Err: User is not a participant")
            /\ UNCHANGED <<participants, permissions>>
       ELSE /\ participants' = participants \ {user_id}
            /\ permissions' = Remove(permissions, DebugFmt(user_id))
            /\ Reply(Ok)

InitLogicDocs ==
    /\ artifact = "logic_docs"
    /\ response = "none"
    /\ DaoIdle
    /\ RegistryIdle
    /\ \E private \in BOOLEAN : init(private)

\* The participants the administrator tries to add, with their permission
AddParticipantInputs ==
    { <<"p2", "Sign">>, <<"p3", "Sign">>, <<"p3", "Read">>, <<owner, "Admin">> }

\* The consents recorded: for the document that gets uploaded by every user,
\* for another document by one user
SetConsentInputs ==
    { <<u, "d1">> : u \in DocUsers } \cup { <<"p2", "d2">> }

\* The sign requests tried: every user on both document ids, and one with a
\* blob id that does not decode
SignDocumentInputs ==
    { <<d, "blob1", u>> : d \in DocumentIds, u \in DocUsers }
        \cup { <<"d1", "not base58", owner>> }

NextLogicDocs ==
    \/ \E blob \in {"blob0", "not base58"} : upload_document("d1", "h0", blob)
    \/ \E d \in DocumentIds : delete_document(d)
    \/ \E in \in SetConsentInputs : set_consent(in[1], in[2])
    \/ \E in \in SignDocumentInputs : sign_document(in[1], in[2], "h1", in[3])
    \/ \E d \in DocumentIds, u \in DocUsers : mark_participant_signed(d, u)
    \/ \E in \in AddParticipantInputs : add_participant(in[1], in[2])
    \/ \E u \in {"p2", "p3"} : remove_participant(u)

SpecLogicDocs == InitLogicDocs /\ [][NextLogicDocs]_vars

(***************************************************************************)
(* The signing registry canister (canisters/merodocs_registry/lib.rs).     *)
(* Every update call runs to completion; a trap rolls its writes back.     *)
(***************************************************************************)
None == << >>
Some(x) == << x >>

InvalidInput == "Err: InvalidInput"
ValidHashes == {"h0", "h1"}

\* validate_id: empty ids and ids with other characters than alphanumerics,
\* '-' and '_' are refused.
validate_id(id) == IF id \in {"", "bad id"} THEN InvalidInput ELSE Ok

\* validate_hash: 64 hexadecimal characters
validate_hash(hash) == IF hash \in ValidHashes THEN Ok ELSE InvalidInput

AuditEntry(user_id, action, context_id, document_id, consent_given) ==
    [user_id |-> user_id, action |-> action, context_id |-> context_id,
     document_id |-> document_id, consent_given |-> consent_given]

\* `trail.get(&key).unwrap_or_else(AuditTrail::new)`
EntriesOf(trail, context_id) ==
    IF context_id \in DOMAIN trail THEN trail[context_id] ELSE << >>

\* An entry put in front of the trail instead of pushed at its end.
add_audit_entry_InFront(trail, context_id, entry) ==
    Insert(trail, context_id, <<entry>> \o EntriesOf(trail, context_id))

\* add_audit_entry: the trail with the entry pushed
add_audit_entry(trail, context_id, entry) ==
    Insert(trail, context_id, Append(EntriesOf(trail, context_id), entry))

\* StableBTreeMap::insert panics on a value longer than its Bound
\* (MAX_AUDIT_ENTRIES_SIZE): a trail holds at most MaxAuditEntries entries.
TrailOverflows(trail) ==
    \E c \in DOMAIN trail : Len(trail[c]) > MaxAuditEntries

\* the elements of a Vec
Elements(vec) == { vec[i] : i \in 1..Len(vec) }

\* is_context_participant
is_context_participant(context_id, user_id) ==
    /\ context_id \in DOMAIN CONTEXTS
    /\ \/ CONTEXTS[context_id].admin_id = user_id
       \/ user_id \in Elements(CONTEXTS[context_id].participants)

\* A consent lookup that accepts the user's consent for any document.
has_user_given_consent_AnyDocument(context_id, user_id, document_id) ==
    /\ context_id \in DOMAIN AUDIT_TRAIL
    /\ \E i \in 1..Len(AUDIT_TRAIL[context_id]) :
          LET entry == AUDIT_TRAIL[context_id][i]
          IN  /\ entry.user_id = user_id
              /\ entry.action = "ConsentGiven"
              /\ entry.consent_given = Some(TRUE)
              /\ entry.document_id # None

\* has_user_given_consent
has_user_given_consent(context_id, user_id, document_id) ==
    /\ context_id \in DOMAIN AUDIT_TRAIL
    /\ \E i \in 1..Len(AUDIT_TRAIL[context_id]) :
          LET entry == AUDIT_TRAIL[context_id][i]
          IN  /\ entry.user_id = user_id
              /\ entry.action = "ConsentGiven"
              /\ entry.consent_given = Some(TRUE)
              /\ entry.document_id # None
              /\ entry.document_id[1] = document_id

RegistryFrame == UNCHANGED <<artifact, daoVars, logicDaoVars, docsVars, privateVars>>

\* The call returns r and leaves the stable maps as they are: an error
\* return before any write, or a trap.
RegistryUnchanged(r) == Reply(r) /\ UNCHANGED registryVars

\* The call's writes take effect unless the trail outgrew its bound.
RegistryCommit(contexts, docs, trail) ==
    IF TrailOverflows(trail)
    THEN RegistryUnchanged(Trap)
    ELSE /\ CONTEXTS' = contexts
         /\ DOCUMENTS' = docs
         /\ AUDIT_TRAIL' = trail
         /\ Reply(Ok)

\* create_context
create_context(caller, context_id, participant_list) ==
    /\ artifact = "merodocs_registry"
    /\ RegistryFrame
    /\ IF validate_id(context_id) # Ok
       THEN RegistryUnchanged(InvalidInput)
       ELSE IF context_id \in DOMAIN CONTEXTS
       THEN RegistryUnchanged("Err: AlreadyExists")
       ELSE RegistryCommit(
               Insert(CONTEXTS, context_id,
                      [context_id |-> context_id, admin_id |-> caller,
                       participants |-> participant_list, document_ids |-> << >>,
                       context_status |-> "Active"]),
               DOCUMENTS,
               add_audit_entry(AUDIT_TRAIL, context_id,
                   AuditEntry(caller, "ContextCreated", context_id, None, None)))

\* add_participant_to_context
add_participant_to_context(caller, context_id, participant_id) ==
    /\ artifact = "merodocs_registry"
    /\ RegistryFrame
    /\ IF validate_id(context_id) # Ok \/ validate_id(participant_id) # Ok
       THEN RegistryUnchanged(InvalidInput)
       ELSE IF context_id \notin DOMAIN CONTEXTS
       THEN RegistryUnchanged("Err: ContextNotFound")
       ELSE IF CONTEXTS[context_id].admin_id # caller
       THEN RegistryUnchanged("Err: Unauthorized")
       ELSE IF \/ participant_id \in Elements(CONTEXTS[context_id].participants)
               \/ CONTEXTS[context_id].admin_id = participant_id
       THEN RegistryUnchanged("Err: UpdateConflict")
       ELSE RegistryCommit(
               [CONTEXTS EXCEPT ![context_id].participants = Append(@, participant_id)],
               DOCUMENTS,
               add_audit_entry(AUDIT_TRAIL, context_id,
                   AuditEntry(caller, "ParticipantAdded", context_id, None, None)))

\* upload_document_to_context
upload_document_to_context(caller, context_id, document_id, document_hash) ==
    /\ artifact = "merodocs_registry"
    /\ RegistryFrame
    /\ IF \/ validate_id(context_id) # Ok
          \/ validate_id(document_id) # Ok
          \/ validate_hash(document_hash) # Ok
       THEN RegistryUnchanged(InvalidInput)
       ELSE IF ~(/\ context_id \in DOMAIN CONTEXTS
                 /\ CONTEXTS[context_id].admin_id = caller)
       THEN RegistryUnchanged("Err: Unauthorized")
       ELSE IF document_id \in DOMAIN DOCUMENTS
       THEN RegistryUnchanged("Err: AlreadyExists")
       ELSE RegistryCommit(
               [CONTEXTS EXCEPT ![context_id].document_ids = Append(@, document_id)],
               Insert(DOCUMENTS, document_id,
                      [document_id |-> document_id, context_id |-> context_id,
                       original_hash |-> document_hash, final_hash |-> None,
                       timestamp_final |-> None, current_signers |-> << >>,
                       document_status |-> "Pending"]),
               add_audit_entry(AUDIT_TRAIL, context_id,
                   AuditEntry(caller, "DocumentUploaded", context_id,
                              Some(document_id), None)))

\* record_consent_for_context
record_consent_for_context(caller, context_id, document_id) ==
    /\ artifact = "merodocs_registry"
    /\ RegistryFrame
    /\ IF validate_id(context_id) # Ok \/ validate_id(document_id) # Ok
       THEN RegistryUnchanged(InvalidInput)
       ELSE IF ~is_context_participant(context_id, caller)
       THEN RegistryUnchanged("Err: Unauthorized")
       ELSE IF ~(/\ document_id \in DOMAIN DOCUMENTS
                 /\ DOCUMENTS[document_id].context_id = context_id)
       THEN RegistryUnchanged("Err: NotFound")
       ELSE RegistryCommit(
               CONTEXTS, DOCUMENTS,
               add_audit_entry(AUDIT_TRAIL, context_id,
                   AuditEntry(caller, "ConsentGiven", context_id,
                              Some(document_id), Some(TRUE))))

\* `required_signers.is_subset(&current_signers)`, false without the context
is_complete(context_id, current_signers) ==
    /\ context_id \in DOMAIN CONTEXTS
    /\ Elements(CONTEXTS[context_id].participants) \cup {CONTEXTS[context_id].admin_id}
          \subseteq Elements(current_signers)

\* The record sign_document writes back for the caller's signature.
SignedDocument(document, user_id) ==
    LET current_signers == Append(document.current_signers, user_id)
    IN  IF is_complete(document.context_id, current_signers)
        THEN [document EXCEPT !.current_signers = current_signers,
                              !.document_status = "FullySigned",
                              !.timestamp_final = Some("time")]
        ELSE [document EXCEPT !.current_signers = current_signers,
                              !.document_status =
                                  IF @ = "Pending" THEN "PartiallySigned" ELSE @]

\* A sign that logs the signature and never the completion.
SignedTrail_NoCompletion(document, user_id) ==
    add_audit_entry(AUDIT_TRAIL, document.context_id,
        AuditEntry(user_id, "SignatureApplied", document.context_id,
                   Some(document.document_id), Some(TRUE)))

\* The audit entries sign_document appends
SignedTrail(document, user_id) ==
    LET signed == add_audit_entry(AUDIT_TRAIL, document.context_id,
                      AuditEntry(user_id, "SignatureApplied", document.context_id,
                                 Some(document.document_id), Some(TRUE)))
    IN  IF is_complete(document.context_id, Append(document.current_signers, user_id))
        THEN add_audit_entry(signed, document.context_id,
                 AuditEntry("system", "DocumentCompleted", document.context_id,
                            Some(document.document_id), None))
        ELSE signed

\* sign_document (merodocs_registry)
registry_sign_document(caller, document_id, consent_acknowledged) ==
    /\ artifact = "merodocs_registry"
    /\ RegistryFrame
    /\ IF validate_id(document_id) # Ok
       THEN RegistryUnchanged(InvalidInput)
       ELSE IF ~consent_acknowledged
       THEN RegistryUnchanged("Err: ConsentRequired")
       ELSE IF document_id \notin DOMAIN DOCUMENTS
       THEN RegistryUnchanged("Err: NotFound")
       ELSE LET document == DOCUMENTS[document_id]
            IN  IF ~is_context_participant(document.context_id, caller)
                THEN RegistryUnchanged("Err: Unauthorized")
                ELSE IF caller \in Elements(document.current_signers)
                THEN RegistryUnchanged("Err: UpdateConflict")
                ELSE IF ~has_user_given_consent(document.context_id, caller, document_id)
                THEN RegistryUnchanged("Err: ConsentRequired")
                ELSE RegistryCommit(
                        CONTEXTS,
                        [DOCUMENTS EXCEPT ![document_id] = SignedDocument(document, caller)],
                        SignedTrail(document, caller))

\* record_final_hash
record_final_hash(caller, document_id, hash) ==
    /\ artifact = "merodocs_registry"
    /\ RegistryFrame
    /\ IF validate_id(document_id) # Ok \/ validate_hash(hash) # Ok
       THEN RegistryUnchanged(InvalidInput)
       ELSE IF document_id \notin DOMAIN DOCUMENTS
       THEN RegistryUnchanged("Err: NotFound")
       ELSE LET document == DOCUMENTS[document_id]
            IN  IF ~(/\ document.context_id \in DOMAIN CONTEXTS
                     /\ CONTEXTS[document.context_id].admin_id = caller)
                THEN RegistryUnchanged("Err: Unauthorized")
                ELSE IF document.final_hash # None
                THEN RegistryUnchanged("Err: UpdateConflict")
                ELSE RegistryCommit(
                        CONTEXTS,
                        [DOCUMENTS EXCEPT ![document_id].final_hash = Some(hash),
                                          ![document_id].timestamp_final = Some("time")],
                        add_audit_entry(AUDIT_TRAIL, document.context_id,
                            AuditEntry(caller, "DocumentCompleted", document.context_id,
                                       Some(document_id), None)))

InitRegistry ==
    /\ artifact = "merodocs_registry"
    /\ response = "none"
    /\ DaoIdle
    /\ LogicDaoIdle
    /\ RegistryIdle

Callers == {"p1", "p2", "p3"}

\* The sign requests tried: every caller on both documents, and one request
\* each without the acknowledgement, with an invalid id, on an unknown id
SigningRequests ==
    { <<caller, d, TRUE>> : caller \in Callers, d \in {"d1", "d2"} }
        \cup { <<"p1", "d1", FALSE>>, <<"p1", "", TRUE>>, <<"p1", "d3", TRUE>> }

NextRegistry ==
    \/ \E id \in {"c1", "bad id"}, ps \in {<< >>, << "p2" >>} :
          create_context("p1", id, ps)
    \/ \E caller \in {"p1", "p2"}, c \in {"c1", "c2"}, p \in {"p1", "p2"} :
          add_participant_to_context(caller, c, p)
    \/ \E caller \in {"p1", "p2"}, d \in {"d1", "d2"}, h \in {"h0", "not a hash"} :
          upload_document_to_context(caller, "c1", d, h)
    \/ \E caller \in Callers, c \in {"c1"}, d \in {"d1", "d2", "d3"} :
          record_consent_for_context(caller, c, d)
    \/ \E in \in SigningRequests : registry_sign_document(in[1], in[2], in[3])
    \/ \E caller \in {"p1", "p2"}, d \in {"d1", "d3"} :
          record_final_hash(caller, d, "h1")

SpecRegistry == InitRegistry /\ [][NextRegistry]_vars

(***************************************************************************)
(* Document signing in either deployment: a behaviour is a run of the      *)
(* replicated logic or a run of the registry canister.                     *)
(***************************************************************************)
InitSigning == InitLogicDocs \/ InitRegistry

NextSigning == NextLogicDocs \/ NextRegistry

SpecSigning == InitSigning /\ [][NextSigning]_vars

(***************************************************************************)
(* logic/src/lib.rs, the private context: the contexts the owner joined    *)
(* and the identity the owner uses in each of them.                        *)
(***************************************************************************)
PrivateContextIds == {"c1", "c2"}
SharedIdentities == {"s1", "s2"}

\* The ContextMetadata join_shared_context_with_type stores.
ContextMetadata(context_id, context_name, ctx_type, shared_identity) ==
    [context_id |-> context_id, context_name |-> context_name,
     context_type |-> ctx_type, role |-> "Unknown",
     private_identity |-> owner, shared_identity |-> shared_identity]

\* The IdentityMapping join_shared_context_with_type stores.
IdentityMapping(context_id, shared_identity) ==
    [private_identity |-> owner, shared_identity |-> shared_identity,
     context_id |-> context_id]

LogicPrivateFrame == UNCHANGED <<artifact, daoVars, logicDaoVars, docsVars, registryVars>>

\* join_shared_context_with_type
join_shared_context_with_type(context_id, shared_identity, context_name, ctx_type) ==
    /\ artifact = "logic_private"
    /\ LogicPrivateFrame
    /\ IF ~is_private
       THEN Reply("Err: Context joining can only be managed in private context")
            /\ UNCHANGED privateVars
       ELSE IF context_id \in DOMAIN joined_contexts
       THEN Reply("Err: Already joined this context")
            /\ UNCHANGED privateVars
       ELSE /\ joined_contexts' =
                  Insert(joined_contexts, context_id,
                         ContextMetadata(context_id, context_name, ctx_type,
                                         shared_identity))
            /\ identity_mappings' =
                  Insert(identity_mappings, context_id,
                         IdentityMapping(context_id, shared_identity))
            /\ Reply(Ok)

\* join_shared_context
join_shared_context(context_id, shared_identity, context_name) ==
    join_shared_context_with_type(context_id, shared_identity, context_name,
                                  "Default")

\* leave_shared_context: `self.joined_contexts.remove(&context_id)`
leave_shared_context(context_id) ==
    /\ artifact = "logic_private"
    /\ LogicPrivateFrame
    /\ UNCHANGED identity_mappings
    /\ IF ~is_private
       THEN Reply("Err: Context leaving can only be managed in private context")
            /\ UNCHANGED joined_contexts
       ELSE IF context_id \in DOMAIN joined_contexts
       THEN /\ joined_contexts' = Remove(joined_contexts, context_id)
            /\ Reply(Ok)
       ELSE Reply("Err: Context not found") /\ UNCHANGED joined_contexts

MappingNotFound == "Err: Identity mapping not found for this context"

\* a Result returned by a query: Ok(value) or Err(message)
OkResult(value) == [ok |-> TRUE, value |-> value]
ErrResult(message) == [ok |-> FALSE, err |-> message]

\* get_identity_mapping
get_identity_mapping(private, mappings, context_id) ==
    IF ~private
    THEN ErrResult("Err: Identity mappings can only be accessed in private context")
    ELSE IF context_id \in DOMAIN mappings
    THEN OkResult(mappings[context_id])
    ELSE ErrResult(MappingNotFound)

\* get_shared_identity: `self.get_identity_mapping(context_id)?`
get_shared_identity(private, mappings, context_id) ==
    IF ~private
    THEN ErrResult("Err: Identity resolution can only be done in private context")
    ELSE LET mapping == get_identity_mapping(private, mappings, context_id)
         IN  IF mapping.ok THEN OkResult(mapping.value.shared_identity)
             ELSE mapping

\* resolve_private_identity: Ok(Some(private identity)) of a mapping with
\* this shared identity, Ok(None) without one
resolve_private_identity(private, mappings, shared_identity) ==
    IF ~private
    THEN ErrResult("Err: Cannot resolve private identity from shared context")
    ELSE IF \E c \in DOMAIN mappings :
                mappings[c].shared_identity = shared_identity
    THEN OkResult(Some(owner))
    ELSE OkResult(None)

InitLogicPrivate ==
    /\ artifact = "logic_private"
    /\ response = "none"
    /\ DaoIdle
    /\ RegistryIdle
    /\ \E private \in BOOLEAN : init(private)

NextLogicPrivate ==
    \/ \E c \in PrivateContextIds, s \in SharedIdentities :
          join_shared_context(c, s, "n")
    \/ \E c \in PrivateContextIds, s \in SharedIdentities :
          join_shared_context_with_type(c, s, "n", "DaoAgreement")
    \/ \E c \in PrivateContextIds : leave_shared_context(c)

SpecLogicPrivate == InitLogicPrivate /\ [][NextLogicPrivate]_vars

(***************************************************************************)
(* Claims about the escrow canister.                                       *)
(***************************************************************************)
MilestoneOf(st, agreement_id, milestone_id) ==
    st.agreements[agreement_id].milestones[
        Position(st.agreements[agreement_id].milestones, milestone_id)]

SameMilestone(c1, c2) ==
    /\ calls[c1].agreement_id = calls[c2].agreement_id
    /\ calls[c1].milestone_id = calls[c2].milestone_id

\* C1: of two execute_milestone calls for the same Approved milestone that both
\* passed the checks on a balance covering one payout but not two, at most one
\* ends successfully.
C1_NeverTwoSuccessfulPayouts ==
    \A c1, c2 \in CallIds :
        ( /\ c1 # c2
          /\ calls[c1].pc = "done" /\ calls[c2].pc = "done"
          /\ SameMilestone(c1, c2)
          /\ calls[c1].milestone_amount > 0
          /\ calls[c1].current_balance < 2 * calls[c1].milestone_amount
          /\ calls[c2].current_balance < 2 * calls[c2].milestone_amount )
        => ~(calls[c1].result = Ok /\ calls[c2].result = Ok)

\* C2: while an execute_milestone call for a milestone is suspended awaiting
\* the transfer, the stored status of that milestone is not Approved.
C2_NotApprovedWhileAwaiting ==
    \A c \in CallIds :
        calls[c].pc = "awaiting"
        => MilestoneOf(state, calls[c].agreement_id, calls[c].milestone_id).status
               # "Approved"

\* C3: the ledger completes at most one successful transfer per milestone.
C3_AtMostOneTransferPerMilestone ==
    \A memo \in Memos : transfers[memo] <= 1

\* C7: when the transfer fails, the call returns an error, the milestone is
\* Approved afterwards and the balance is what it was when the call began.
C7_FailedTransferRestores ==
    [][\A c \in CallIds :
          ( /\ calls[c].pc = "awaiting"
            /\ calls'[c].pc = "done"
            /\ calls'[c].result # Ok )
          => /\ calls'[c].result = "Err: Transfer failed"
             /\ MilestoneOf(state', calls[c].agreement_id,
                            calls[c].milestone_id).status = "Approved"
             /\ GetOr0(state'.agreement_balances, calls[c].agreement_id)
                    = calls[c].current_balance]_vars

\* C8: a successful execution leaves the milestone Executed with completed_at
\* set and the balance at its value just before the commit minus the amount,
\* whatever executions of the agreement's other milestones did to the balance
\* while the transfer was awaited.
C8_CommitDebitsCurrentBalance ==
    [][\A c \in CallIds :
          ( /\ calls[c].pc = "awaiting"
            /\ calls'[c].pc = "done"
            /\ calls'[c].result = Ok
            /\ \A b \in CallIds \ {c} :
                   calls[b].pc = "idle" \/ ~SameMilestone(b, c) )
          => LET a == calls[c].agreement_id
                 m == MilestoneOf(state', a, calls[c].milestone_id)
             IN  /\ m.status = "Executed"
                 /\ m.completed_at = "Some"
                 /\ GetOr0(state'.agreement_balances, a)
                        = GetOr0(state.agreement_balances, a) - m.amount]_vars


(***************************************************************************)
(* Claims about the agreements of the replicated logic.                    *)
(***************************************************************************)
\* C4: for every agreement in the store, remaining_balance <= total_funding
\* in every reachable state.
C4_BalanceWithinFunding ==
    \A a \in DOMAIN dao_agreements :
        dao_agreements[a].remaining_balance <= dao_agreements[a].total_funding

\* C4 witness: an agreement that was funded and has paid a milestone out, so
\* that its balance lies strictly between zero and its funding total.
C4_FundedAndPaidOut ==
    \E a \in DOMAIN dao_agreements :
        /\ \E i \in 1..Len(dao_agreements[a].milestones) :
              /\ dao_agreements[a].milestones[i].status = "Executed"
              /\ dao_agreements[a].milestones[i].amount > 0
        /\ dao_agreements[a].remaining_balance > 0
        /\ dao_agreements[a].remaining_balance < dao_agreements[a].total_funding

\* The least k with 100 * k >= n * threshold, found by search.
CeilPercent(n, threshold) ==
    CHOOSE k \in 0..(n + 1) :
        /\ 100 * k >= n * threshold
        /\ \A j \in 0..(n + 1) : 100 * j >= n * threshold => k <= j

TrueVotes(votes) == {v \in DOMAIN votes : votes[v] = TRUE}

FalseVotes(votes) == {v \in DOMAIN votes : votes[v] = FALSE}

\* The status the quorum rule prescribes for a tallied milestone.
QuorumStatus(n, threshold, votes) ==
    LET required == CeilPercent(n, threshold)
    IN  IF Cardinality(TrueVotes(votes)) >= required
        THEN "Approved"
        ELSE IF Cardinality(FalseVotes(votes)) > n - required
             THEN "Rejected"
             ELSE "VotingActive"

OkVoteReplies ==
    { VoteReply(s) : s \in {"Approved", "Rejected", "VotingActive"} }

\* C5: after a successful vote on a milestone, with N = participants + 1 and
\* required = (N * threshold + 99) / 100 = ceil(N * threshold / 100), the
\* milestone is Approved if the true votes are >= required, else Rejected if
\* the false votes are > N - required, else VotingActive.
C5_QuorumDecision ==
    [][\A id \in {"a1"}, mid \in {1, 2}, approve \in BOOLEAN :
          (vote_on_milestone(id, mid, approve) /\ response' \in OkVoteReplies)
          => LET agreement == dao_agreements'[id]
                 n == Cardinality(agreement.participants) + 1
                 m == agreement.milestones[Position(agreement.milestones, mid)]
             IN  /\ (n * agreement.voting_threshold + 99) \div 100
                       = CeilPercent(n, agreement.voting_threshold)
                 /\ m.status = QuorumStatus(n, agreement.voting_threshold, m.votes)
                 /\ response' = VoteReply(m.status)
                 /\ DebugFmt(owner) \in DOMAIN m.votes
                 /\ m.votes[DebugFmt(owner)] = approve]_vars

\* C5 witness: five voters at threshold 60, so three votes are required; the
\* third approval has just been cast and the milestone is Approved.
C5_ThreeOfFiveApprove ==
    /\ response = VoteReply("Approved")
    /\ "a1" \in DOMAIN dao_agreements
    /\ Cardinality(dao_agreements["a1"].participants) + 1 = 5
    /\ dao_agreements["a1"].voting_threshold = 60
    /\ Cardinality(TrueVotes(dao_agreements["a1"].milestones[1].votes)) = 3
    /\ dao_agreements["a1"].milestones[1].votes[DebugFmt(owner)] = TRUE
    /\ dao_agreements["a1"].milestones[1].status = "Approved"

(***************************************************************************)
(* Claims about documents, consent and signatures.                         *)
(***************************************************************************)
\* Consent for exactly (s, d) is in the consent map of the replicated logic.
LogicConsentRecorded(s, d) ==
    /\ << DebugFmt(s), "|", d >> \in DOMAIN consents
    /\ consents[<< DebugFmt(s), "|", d >>] = TRUE

\* Consent for exactly (s, d) is in an audit trail of the registry.
RegistryConsentRecorded(s, d) ==
    \E c \in DOMAIN AUDIT_TRAIL : \E i \in 1..Len(AUDIT_TRAIL[c]) :
        /\ AUDIT_TRAIL[c][i].action = "ConsentGiven"
        /\ AUDIT_TRAIL[c][i].user_id = s
        /\ AUDIT_TRAIL[c][i].document_id = << d >>
        /\ AUDIT_TRAIL[c][i].consent_given = << TRUE >>

EverySignerConsented ==
    /\ \A d \in DOMAIN document_signatures :
          \A i \in 1..Len(document_signatures[d]) :
              LogicConsentRecorded(document_signatures[d][i].signer, d)
    /\ \A d \in DOMAIN DOCUMENTS :
          \A i \in 1..Len(DOCUMENTS[d].current_signers) :
              RegistryConsentRecorded(DOCUMENTS[d].current_signers[i], d)

\* A sign request without recorded consent for exactly (s, d) fails and
\* changes no document and no signer set; it fails with the consent-required
\* error (in the registry: when the request names a document of a context
\* the caller belongs to, which is checked first).
SignWithoutConsentRefused ==
    /\ \A in \in SignDocumentInputs :
          (/\ artifact = "logic_docs"
           /\ ~LogicConsentRecorded(in[3], in[1])
           /\ sign_document(in[1], in[2], "h1", in[3]))
          => /\ response' = ConsentRequiredToSign
             /\ UNCHANGED <<documents, document_signatures>>
    /\ \A in \in SigningRequests :
          LET caller == in[1]
              d == in[2]
          IN  (/\ artifact = "merodocs_registry"
               /\ ~RegistryConsentRecorded(caller, d)
               /\ registry_sign_document(caller, d, in[3]))
              => /\ UNCHANGED registryVars
                 /\ response' \in {"Err: ConsentRequired", "Err: NotFound",
                                   "Err: Unauthorized", InvalidInput}
                 /\ (/\ d \in DOMAIN DOCUMENTS
                     /\ DOCUMENTS[d].context_id \in DOMAIN CONTEXTS
                     /\ caller \in {CONTEXTS[DOCUMENTS[d].context_id].admin_id}
                            \cup Elements(CONTEXTS[DOCUMENTS[d].context_id].participants))
                    => response' = "Err: ConsentRequired"

\* C6: consent gate: a sign request by signer s on document d fails with a
\* consent-required error, leaving the document and its signer set unchanged,
\* unless consent for exactly (s, d) was recorded before; so every current
\* signer of a document has a recorded consent for that same document.
C6_ConsentGate == []EverySignerConsented /\ [][SignWithoutConsentRefused]_vars

\* C6 witness: in the registry one participant has signed d1 with consent,
\* another holds consent for d2 only and has been refused with the
\* consent-required error, d1's signers not including that participant.
C6_RefusedWithOtherDocumentConsent ==
    /\ artifact = "merodocs_registry"
    /\ response = "Err: ConsentRequired"
    /\ "d1" \in DOMAIN DOCUMENTS
    /\ "d2" \in DOMAIN DOCUMENTS
    /\ "p1" \in Elements(DOCUMENTS["d1"].current_signers)
    /\ "p2" \in Elements(CONTEXTS["c1"].participants)
    /\ RegistryConsentRecorded("p2", "d2")
    /\ ~RegistryConsentRecorded("p2", "d1")
    /\ "p2" \notin Elements(DOCUMENTS["d1"].current_signers)

\* C9: a document whose required signers A, B, C have all signed is
\* FullySigned; adding D with Sign permission makes it PartiallySigned; once
\* D has recorded consent and signed, it is FullySigned again.  Stated for
\* the last step: the successful sign of the one participant still missing,
\* who holds Sign permission, on a PartiallySigned document that all other
\* participants have signed makes it FullySigned.
C9_LastSignerRestoresFullySigned ==
    [][\A d \in DocumentIds, blob \in {"blob1"}, s \in DocUsers :
          (/\ sign_document(d, blob, "h1", s)
           /\ response' = Ok
           /\ documents[d].status = "PartiallySigned"
           /\ Cardinality(participants) = Cardinality(DocUsers)
           /\ s \in participants
           /\ permissions[DebugFmt(s)] = "Sign"
           /\ s \notin Signers(SignaturesOf(d))
           /\ participants \ {s} \subseteq Signers(SignaturesOf(d)))
          => documents'[d].status = "FullySigned"]_vars

\* C10: a FullySigned document of the registry has every required signer
\* (all participants of its context and the context admin) among its
\* current signers, also after the context gained a participant.
C10_FullySignedCoversRequired ==
    \A d \in DOMAIN DOCUMENTS :
        DOCUMENTS[d].document_status = "FullySigned"
        => \A c \in DOMAIN CONTEXTS :
              c = DOCUMENTS[d].context_id
              => Elements(CONTEXTS[c].participants) \cup {CONTEXTS[c].admin_id}
                    \subseteq Elements(DOCUMENTS[d].current_signers)

\* ---------------------------------------------------------------------
\* Consent recorded twice in a row

\* the preceding call was a successful record_consent_for_context of
\* `caller` for `document_id`: it replied Ok and its entry ends the trail
RegistryJustConsented(caller, context_id, document_id) ==
    /\ artifact = "merodocs_registry"
    /\ response = Ok
    /\ EntriesOf(AUDIT_TRAIL, context_id) # << >>
    /\ LET trail == EntriesOf(AUDIT_TRAIL, context_id)
       IN  trail[Len(trail)] =
               AuditEntry(caller, "ConsentGiven", context_id,
                          Some(document_id), Some(TRUE))

\* a call replied Ok with the consent of `user_id` for `document_id` stored,
\* as after set_consent(user_id, document_id)
LogicJustConsented(user_id, document_id) ==
    /\ artifact = "logic_docs"
    /\ response = Ok
    /\ has_consented(user_id, document_id)

\* C11: recording a consent a second time, right after it was recorded,
\* leaves the whole state as the first call left it, in the registry
\* canister and in the context logic, and the consent still reads true.
C11_ConsentIdempotent ==
    [][ /\ \A caller \in Callers, d \in {"d1", "d2"} :
              ( /\ RegistryJustConsented(caller, "c1", d)
                /\ record_consent_for_context(caller, "c1", d) )
              => ( /\ UNCHANGED registryVars
                   /\ has_user_given_consent("c1", caller, d)' )
        /\ \A in \in SetConsentInputs :
              ( /\ LogicJustConsented(in[1], in[2])
                /\ set_consent(in[1], in[2]) )
              => ( /\ UNCHANGED docsVars
                   /\ has_consented(in[1], in[2])' )
      ]_vars

(***************************************************************************)
(* Claims about the creation of an agreement.                              *)
(***************************************************************************)
\* the checks create_dao_agreement makes besides the one on the amounts
OtherCreateChecksPass(r) ==
    /\ context_type = "DaoAgreement"
    /\ r.id # "" /\ r.title # ""
    /\ r.voting_threshold >= 50 /\ r.voting_threshold <= 100
    /\ r.milestones # <<>>
    /\ r.total_funding # 0
    /\ ~HasDuplicateIds(r.milestones)
    /\ r.id \notin DOMAIN dao_agreements

\* C12: create_dao_agreement fails with a validation error and stores
\* nothing for every milestone list whose amounts, summed as mathematical
\* integers (not modulo 2^128), exceed total_funding; it is accepted when
\* the sum is at most total_funding and the other checks pass.
C12_MilestoneSumChecked ==
    [][\A r \in CreateDaoRequests, overflow_checks \in BOOLEAN :
          create_dao_agreement(r.id, r.title, r.participants, r.milestones,
                               r.voting_threshold, r.total_funding,
                               overflow_checks)
          => /\ SumAmounts(r.milestones) > r.total_funding
                => /\ response' \notin {Ok, Trap}
                   /\ UNCHANGED dao_agreements
             /\ (OtherCreateChecksPass(r)
                    /\ SumAmounts(r.milestones) <= r.total_funding)
                => /\ response' = Ok
                   /\ r.id \in DOMAIN dao_agreements'
      ]_vars

(***************************************************************************)
(* Claims about refused votes, executions and deposits, on the escrow      *)
(* canister and on the replicated logic together.                          *)
(***************************************************************************)
InitEscrow == InitDao \/ InitLogicDao

\* The canister's methods as in NextDao, with one execute_milestone call in
\* flight at a time.
NextDaoOneCall ==
    \/ \E r \in CreateAgreementRequests :
          create_agreement("p1", r.id, r.title, r.milestones, r.voting_threshold)
    \/ \E caller \in {"p1", "p4"}, id \in DaoAgreementIds, p \in {"p2", "p4"} :
          dao_add_participant(caller, id, p)
    \/ \E caller \in {"p2", "p3", "p4"}, d \in {"d1", "d2"} :
          dao_sign_document(caller, "a1", d)
    \/ \E caller \in {"p1", "p4"}, amount \in {0, 1} :
          fund_agreement(caller, "a1", amount)
    \/ \E caller \in {"p2", "p3", "p4"}, m \in DaoMilestoneIds, approve \in BOOLEAN :
          vote_milestone(caller, "a1", m, approve)
    \/ \E caller \in {"p1", "p3"}, lid \in {Anonymous, Ledger} :
          set_ledger_canister_id(caller, lid)
    \/ \E id \in DaoAgreementIds, m \in DaoMilestoneIds :
          execute_milestone_begin(1, id, m)
    \/ \E reply \in {"Ok", "Err", "Reject"} :
          execute_milestone_resume(1, reply)

NextEscrow == NextDaoOneCall \/ NextLogicDao

SpecEscrow == InitEscrow /\ [][NextEscrow]_vars

NotReadyForVoting == "Err: Milestone is not ready for voting"

\* the caller may vote on the stored agreement, whose milestone
\* milestone_id exists and is in neither ReadyForVoting nor VotingActive
LogicVoteNotReady(agreement_id, milestone_id) ==
    /\ context_type = "DaoAgreement"
    /\ agreement_id \in DOMAIN dao_agreements
    /\ LET agreement == dao_agreements[agreement_id]
       IN  /\ \/ agreement.creator = owner
              \/ DebugFmt(owner) \in agreement.participants
           /\ \E i \in 1..Len(agreement.milestones) :
                 /\ agreement.milestones[i].id = milestone_id
                 /\ agreement.milestones[i].status
                        \notin {"ReadyForVoting", "VotingActive"}

\* the agreement is unknown, the caller is not allowed to vote on it, or it
\* has no milestone milestone_id
LogicVoteRejected(agreement_id, milestone_id) ==
    \/ agreement_id \notin DOMAIN dao_agreements
    \/ LET agreement == dao_agreements[agreement_id]
       IN  \/ /\ agreement.creator # owner
              /\ DebugFmt(owner) \notin agreement.participants
           \/ \A i \in 1..Len(agreement.milestones) :
                 agreement.milestones[i].id # milestone_id

\* the same two cases for the canister, whose caller is a principal
DaoMayVote(caller, agreement_id) ==
    /\ agreement_id \in DOMAIN state.agreements
    /\ \/ state.agreements[agreement_id].creator = caller
       \/ caller \in state.agreements[agreement_id].participants
       \/ state.admin = caller

DaoVoteNotReady(caller, agreement_id, milestone_id) ==
    /\ DaoMayVote(caller, agreement_id)
    /\ \E i \in 1..Len(state.agreements[agreement_id].milestones) :
          LET milestone == state.agreements[agreement_id].milestones[i]
          IN  /\ milestone.id = milestone_id
              /\ milestone.status \notin {"ReadyForVoting", "VotingActive"}

DaoVoteRejected(caller, agreement_id, milestone_id) ==
    \/ ~DaoMayVote(caller, agreement_id)
    \/ \A i \in 1..Len(state.agreements[agreement_id].milestones) :
          state.agreements[agreement_id].milestones[i].id # milestone_id

\* C14: a vote on a milestone that is neither ReadyForVoting nor
\* VotingActive fails with the not-ready error and leaves the milestone's
\* vote map and status unchanged; a vote by a caller who may not vote, or on
\* an unknown agreement or milestone, fails and leaves all state unchanged.
C14_RefusedVoteChangesNothing ==
    [][ /\ \A id \in {"a1", "a3"}, m \in DaoMilestoneIds, approve \in BOOLEAN :
              vote_on_milestone(id, m, approve)
              => /\ LogicVoteNotReady(id, m)
                    => /\ response' = NotReadyForVoting
                       /\ UNCHANGED dao_agreements
                 /\ LogicVoteRejected(id, m)
                    => /\ response' \notin OkVoteReplies
                       /\ UNCHANGED logicDaoVars
        /\ \A caller \in {"p2", "p4"}, m \in DaoMilestoneIds, approve \in BOOLEAN :
              vote_milestone(caller, "a1", m, approve)
              => /\ DaoVoteNotReady(caller, "a1", m)
                    => /\ response' = NotReadyForVoting
                       /\ UNCHANGED daoVars
                 /\ DaoVoteRejected(caller, "a1", m)
                    => /\ response' \notin OkVoteReplies
                       /\ UNCHANGED daoVars
      ]_vars

\* A vote on a stored milestone that is not open for voting was refused.
C14_VoteOnClosedMilestoneRefused ==
    /\ artifact = "logic_dao"
    /\ response = NotReadyForVoting
    /\ \E id \in DOMAIN dao_agreements :
          \E i \in 1..Len(dao_agreements[id].milestones) :
              dao_agreements[id].milestones[i].status = "Approved"

NotApprovedForExecution == "Err: Milestone is not approved for execution"

InsufficientBalance == "Err: Insufficient escrow balance"

\* milestones has a milestone milestone_id, and it is not Approved
NotApproved(milestones, milestone_id) ==
    \E i \in 1..Len(milestones) :
        /\ milestones[i].id = milestone_id
        /\ milestones[i].status # "Approved"

\* milestones has a milestone milestone_id, Approved, whose amount is more
\* than balance
ApprovedBeyond(milestones, milestone_id, balance) ==
    \E i \in 1..Len(milestones) :
        /\ milestones[i].id = milestone_id
        /\ milestones[i].status = "Approved"
        /\ milestones[i].amount > balance

\* C15: executing a milestone that is not Approved fails with the
\* not-approved error, and executing an Approved milestone whose amount is
\* more than the remaining balance fails with the insufficient-balance
\* error; either way the milestone's status and completed_at and the
\* balance stay as they were and no transfer is requested.
C15_RefusedExecutionChangesNothing ==
    [][ /\ \A id \in {"a1", "a2", "a3"}, m \in {1, 2, 4} :
              ( /\ execute_milestone(id, m)
                /\ context_type = "DaoAgreement"
                /\ id \in DOMAIN dao_agreements )
              => LET agreement == dao_agreements[id]
                 IN  /\ NotApproved(agreement.milestones, m)
                        => /\ response' = NotApprovedForExecution
                           /\ UNCHANGED dao_agreements
                     /\ ApprovedBeyond(agreement.milestones, m,
                                       agreement.remaining_balance)
                        => /\ response' = InsufficientBalance
                           /\ UNCHANGED dao_agreements
        /\ \A id \in DaoAgreementIds, m \in DaoMilestoneIds :
              ( /\ execute_milestone_begin(1, id, m)
                /\ id \in DOMAIN state.agreements )
              => LET milestones == state.agreements[id].milestones
                     balance == GetOr0(state.agreement_balances, id)
                 IN  /\ NotApproved(milestones, m)
                        => /\ calls'[1].pc = "done"
                           /\ calls'[1].result = NotApprovedForExecution
                           /\ UNCHANGED <<state, transfers>>
                     /\ ApprovedBeyond(milestones, m, balance)
                        => /\ calls'[1].pc = "done"
                           /\ calls'[1].result = InsufficientBalance
                           /\ UNCHANGED <<state, transfers>>
      ]_vars

\* An Approved milestone that the balance does not cover was not executed.
C15_UnfundedExecutionRefused ==
    /\ artifact = "logic_dao"
    /\ response = InsufficientBalance
    /\ \E id \in DOMAIN dao_agreements :
          ApprovedBeyond(dao_agreements[id].milestones, 1,
                         dao_agreements[id].remaining_balance)

(***************************************************************************)
(* Claims about signing a document twice and about its status.             *)
(***************************************************************************)
\* no element occurs twice in the Vec
Distinct(vec) == \A i, j \in 1..Len(vec) : vec[i] = vec[j] => i = j

\* every document lists each of its signers once
SignersOccurOnce ==
    /\ \A d \in DOMAIN document_signatures :
          Distinct([i \in 1..Len(document_signatures[d]) |->
                        document_signatures[d][i].signer])
    /\ \A d \in DOMAIN DOCUMENTS : Distinct(DOCUMENTS[d].current_signers)

\* a sign request of a signer who is among the document's signers fails and
\* leaves the document and its signatures as they are
SignAgainRefused ==
    /\ \A in \in SignDocumentInputs :
          (/\ artifact = "logic_docs"
           /\ in[3] \in Signers(SignaturesOf(in[1]))
           /\ sign_document(in[1], in[2], "h1", in[3]))
          => /\ response' # Ok
             /\ UNCHANGED <<documents, document_signatures>>
    /\ \A in \in SigningRequests :
          (/\ artifact = "merodocs_registry"
           /\ in[2] \in DOMAIN DOCUMENTS
           /\ in[1] \in Elements(DOCUMENTS[in[2]].current_signers)
           /\ registry_sign_document(in[1], in[2], in[3]))
          => /\ response' # Ok
             /\ UNCHANGED registryVars

\* C16: a sign request by a signer who is already among the document's
\* current signers fails with an already-signed error and leaves the
\* document unchanged, so a signer appears at most once in a document's
\* signer collection.
C16_NoDoubleSigning == []SignersOccurOnce /\ [][SignAgainRefused]_vars

\* the status a document has once `signers` have signed it and `required`
\* must sign it
StatusFor(signers, required) ==
    IF required \subseteq signers THEN "FullySigned" ELSE "PartiallySigned"

\* the required signers of a registry document: the participants of its
\* context and the context's administrator
RequiredSigners(contexts, document) ==
    Elements(contexts[document.context_id].participants)
        \cup {contexts[document.context_id].admin_id}

\* C17: after every successful sign of document d by signer s, s is among
\* d's current signers and d is FullySigned if and only if the current
\* signers include every required signer (all participants of the context,
\* and its administrator), and PartiallySigned otherwise.
C17_StatusMatchesSigners ==
    [][ /\ \A in \in SignDocumentInputs :
              (/\ artifact = "logic_docs"
               /\ sign_document(in[1], in[2], "h1", in[3])
               /\ response' = Ok)
              => /\ in[3] \in Signers(document_signatures'[in[1]])
                 /\ documents'[in[1]].status =
                       StatusFor(Signers(document_signatures'[in[1]]),
                                 participants')
        /\ \A in \in SigningRequests :
              (/\ artifact = "merodocs_registry"
               /\ registry_sign_document(in[1], in[2], in[3])
               /\ response' = Ok)
              => /\ in[1] \in Elements(DOCUMENTS'[in[2]].current_signers)
                 /\ DOCUMENTS'[in[2]].document_status =
                       StatusFor(Elements(DOCUMENTS'[in[2]].current_signers),
                                 RequiredSigners(CONTEXTS', DOCUMENTS'[in[2]]))
      ]_vars

\* Pending < PartiallySigned < FullySigned
StatusRank(status) ==
    IF status = "Pending" THEN 0
    ELSE IF status = "PartiallySigned" THEN 1
    ELSE 2

\* the step adds a participant with Sign permission to the logic's context
SigningParticipantAdded ==
    \E u \in participants' \ participants :
        /\ DebugFmt(u) \in DOMAIN permissions'
        /\ permissions'[DebugFmt(u)] = "Sign"

\* C18: the status of a document never moves backwards in the order
\* Pending < PartiallySigned < FullySigned, except for the step from
\* FullySigned to PartiallySigned taken when a participant with Sign
\* permission is added to the context; a successful sign never lowers a
\* FullySigned document.
C18_StatusNeverLowered ==
    [][ /\ \A d \in DOMAIN documents \cap DOMAIN documents' :
              StatusRank(documents'[d].status) < StatusRank(documents[d].status)
              => /\ documents[d].status = "FullySigned"
                 /\ documents'[d].status = "PartiallySigned"
                 /\ SigningParticipantAdded
        /\ \A d \in DOMAIN DOCUMENTS \cap DOMAIN DOCUMENTS' :
              StatusRank(DOCUMENTS'[d].document_status)
                  >= StatusRank(DOCUMENTS[d].document_status)
      ]_vars

(***************************************************************************)
(* Claims about deposits.                                                  *)
(***************************************************************************)
\* C19: a successful fund of amount a > 0 on an agreement raises both its
\* total_funding and its remaining_balance by exactly a and leaves its
\* milestones (status, votes, amounts), participants, threshold and status,
\* and every other agreement, unchanged.
C19_FundAddsExactlyTheAmount ==
    [][\A f \in FundInputs :
          (/\ fund_dao_agreement(f[1], f[2])
           /\ response' = Ok)
          => LET id == f[1]
                 amount == f[2]
             IN  /\ amount > 0
                 /\ id \in DOMAIN dao_agreements
                 /\ DOMAIN dao_agreements' = DOMAIN dao_agreements
                 /\ dao_agreements'[id].total_funding
                        = dao_agreements[id].total_funding + amount
                 /\ dao_agreements'[id].remaining_balance
                        = dao_agreements[id].remaining_balance + amount
                 /\ dao_agreements'[id].milestones = dao_agreements[id].milestones
                 /\ dao_agreements'[id].participants = dao_agreements[id].participants
                 /\ dao_agreements'[id].voting_threshold
                        = dao_agreements[id].voting_threshold
                 /\ dao_agreements'[id].status = dao_agreements[id].status
                 /\ dao_agreements'[id].creator = dao_agreements[id].creator
                 /\ \A other \in DOMAIN dao_agreements \ {id} :
                        dao_agreements'[other] = dao_agreements[other]
      ]_vars

\* Of two stored agreements one was funded, the other has received nothing.
C19_OneOfTwoAgreementsFunded ==
    /\ artifact = "logic_dao"
    /\ response = Ok
    /\ DOMAIN dao_agreements = {"a1", "a2"}
    /\ dao_agreements["a1"].remaining_balance = 2
    /\ dao_agreements["a1"].total_funding >= 4
    /\ dao_agreements["a2"].remaining_balance = 0

\* the deposit must be refused by the logic: the amount is zero, the
\* agreement is unknown, the caller is neither its creator nor a
\* participant, or a total would leave the u128 range
LogicFundMustFail(agreement_id, amount) ==
    \/ amount = 0
    \/ agreement_id \notin DOMAIN dao_agreements
    \/ LET agreement == dao_agreements[agreement_id]
       IN  \/ /\ agreement.creator # owner
              /\ DebugFmt(owner) \notin agreement.participants
           \/ agreement.total_funding + amount > MaxU128
           \/ agreement.remaining_balance + amount > MaxU128

\* the same for the canister, which keeps one balance per agreement
DaoFundMustFail(caller, agreement_id, amount) ==
    \/ amount = 0
    \/ ~DaoMayVote(caller, agreement_id)
    \/ GetOr0(state.agreement_balances, agreement_id) + amount > MaxU128

\* C20: fund fails, leaving total_funding and remaining_balance unchanged,
\* when the amount is 0, when the caller is neither the creator nor a
\* participant of the agreement, when the agreement does not exist, or when
\* the addition would leave the 128-bit unsigned range of either total; no
\* stored total ever wraps: a deposit never lowers one.
C20_RefusedFundChangesNothing ==
    [][ /\ \A f \in FundInputs :
              fund_dao_agreement(f[1], f[2])
              => /\ LogicFundMustFail(f[1], f[2])
                    => /\ response' # Ok
                       /\ UNCHANGED dao_agreements
                 /\ \A id \in DOMAIN dao_agreements :
                       /\ dao_agreements'[id].total_funding
                              >= dao_agreements[id].total_funding
                       /\ dao_agreements'[id].remaining_balance
                              >= dao_agreements[id].remaining_balance
                       /\ dao_agreements'[id].total_funding <= MaxU128
        /\ \A caller \in {"p1", "p4"}, amount \in {0, 1} :
              fund_agreement(caller, "a1", amount)
              => /\ DaoFundMustFail(caller, "a1", amount)
                    => /\ response' \in {"Err: Amount must be greater than zero",
                                         Trap}
                       /\ UNCHANGED state
                 /\ \A id \in DOMAIN state.agreement_balances :
                       /\ id \in DOMAIN state'.agreement_balances
                       /\ state'.agreement_balances[id]
                              >= state.agreement_balances[id]
      ]_vars

\* A deposit that would take total_funding past the u128 range was refused.
C20_OverflowingFundRefused ==
    /\ artifact = "logic_dao"
    /\ response = "Err: Total funding overflow"
    /\ \E id \in DOMAIN dao_agreements :
          dao_agreements[id].total_funding + MaxU128 - 1 > MaxU128

(***************************************************************************)
(* Claims about joining and leaving shared contexts.                       *)
(***************************************************************************)
AlreadyJoined == "Err: Already joined this context"

\* C21: join for a context id fails with the already-joined error, leaving
\* all records unchanged, whenever an identity mapping exists for that
\* context id; no step of join or leave re-binds a context id whose mapping
\* still exists to another shared identity; a successful join stores the
\* mapping (owner's private identity, given shared identity) and the role
\* Unknown.
C21_JoinNeverRebinds ==
    [][ /\ \A c \in PrivateContextIds, s \in SharedIdentities,
             t \in {"Default", "DaoAgreement"} :
              join_shared_context_with_type(c, s, "n", t)
              => /\ (is_private /\ c \in DOMAIN identity_mappings)
                    => /\ response' = AlreadyJoined
                       /\ UNCHANGED privateVars
                 /\ response' = Ok
                    => /\ identity_mappings'[c] = IdentityMapping(c, s)
                       /\ joined_contexts'[c].role = "Unknown"
                       /\ joined_contexts'[c].private_identity = owner
                       /\ joined_contexts'[c].shared_identity = s
        /\ artifact = "logic_private"
           => \A c \in DOMAIN identity_mappings \cap DOMAIN identity_mappings' :
                 identity_mappings'[c].shared_identity
                     = identity_mappings[c].shared_identity
      ]_vars

\* C22: leave on a joined context id removes the mapping of that context:
\* afterwards get_identity_mapping and get_shared_identity report not found
\* for it and resolve_private_identity no longer resolves its shared
\* identity through it; leave on a context id that is not joined fails with
\* the not-found error and changes nothing.
C22_LeaveRemovesMapping ==
    [][\A c \in PrivateContextIds :
          (leave_shared_context(c) /\ is_private)
          => /\ c \in DOMAIN joined_contexts
                => /\ response' = Ok
                   /\ c \notin DOMAIN joined_contexts'
                   /\ get_identity_mapping(is_private', identity_mappings', c)
                          = ErrResult(MappingNotFound)
                   /\ get_shared_identity(is_private', identity_mappings', c)
                          = ErrResult(MappingNotFound)
                   /\ (\A other \in DOMAIN joined_contexts' :
                          joined_contexts'[other].shared_identity
                              # joined_contexts[c].shared_identity)
                      => resolve_private_identity(
                             is_private', identity_mappings',
                             joined_contexts[c].shared_identity)
                             = OkResult(None)
             /\ c \notin DOMAIN joined_contexts
                => /\ response' = "Err: Context not found"
                   /\ UNCHANGED privateVars
      ]_vars

(***************************************************************************)
(* Claims about recording consent and about the audit trail.               *)
(***************************************************************************)
\* C23: recording consent fails with a not-found error, recording nothing,
\* when the document does not exist, when the document belongs to another
\* context, or when the owning context does not exist.
C23_ConsentNeedsDocument ==
    [][ /\ \A in \in SetConsentInputs :
              (/\ artifact = "logic_docs"
               /\ in[2] \notin DOMAIN documents
               /\ set_consent(in[1], in[2]))
              => /\ response' = "Err: Document not found"
                 /\ UNCHANGED docsVars
        /\ \A caller \in Callers, d \in {"d1", "d2", "d3"} :
              (/\ artifact = "merodocs_registry"
               /\ \/ d \notin DOMAIN DOCUMENTS
                  \/ DOCUMENTS[d].context_id # "c1"
                  \/ "c1" \notin DOMAIN CONTEXTS
               /\ record_consent_for_context(caller, "c1", d))
              => /\ response' = "Err: NotFound"
                 /\ UNCHANGED registryVars
      ]_vars

\* the entries a step appended to the trail of context_id
Appended(context_id) ==
    SubSeq(EntriesOf(AUDIT_TRAIL', context_id),
           Len(EntriesOf(AUDIT_TRAIL, context_id)) + 1,
           Len(EntriesOf(AUDIT_TRAIL', context_id)))

InitAudit == InitRegistry \/ InitDao

NextAudit == NextRegistry \/ NextDaoOneCall

SpecAudit == InitAudit /\ [][NextAudit]_vars

\* before is a prefix of after
IsPrefix(before, after) ==
    /\ Len(before) <= Len(after)
    /\ SubSeq(after, 1, Len(before)) = before

\* C25: the audit trail is append-only: for every context and every
\* operation, the entries before the operation are a prefix of the entries
\* after it; no entry is ever removed, reordered or modified.  The same for
\* the events of the escrow canister.
C25_AuditTrailAppendOnly ==
    [][ /\ \A c \in DOMAIN AUDIT_TRAIL :
              /\ c \in DOMAIN AUDIT_TRAIL'
              /\ IsPrefix(AUDIT_TRAIL[c], AUDIT_TRAIL'[c])
        /\ IsPrefix(state.events, state'.events)
      ]_vars

\* An entry was appended to a trail that already held two of another kind.
C25_TrailGrewPastTwo ==
    /\ artifact = "merodocs_registry"
    /\ response = Ok
    /\ \E c \in DOMAIN AUDIT_TRAIL :
          /\ Len(AUDIT_TRAIL[c]) >= 3
          /\ AUDIT_TRAIL[c][1].action = "ContextCreated"
          /\ AUDIT_TRAIL[c][3].action # AUDIT_TRAIL[c][2].action

(***************************************************************************)
(* Claims about the stored agreements.                                     *)
(***************************************************************************)
\* threshold within 50..100, at least one milestone, distinct milestone ids
WellFormedAgreement(agreement) ==
    /\ agreement.voting_threshold >= 50
    /\ agreement.voting_threshold <= 100
    /\ agreement.milestones # <<>>
    /\ \A i, j \in 1..Len(agreement.milestones) :
          agreement.milestones[i].id = agreement.milestones[j].id => i = j

EveryAgreementWellFormed ==
    /\ \A a \in DOMAIN dao_agreements : WellFormedAgreement(dao_agreements[a])
    /\ \A a \in DOMAIN state.agreements : WellFormedAgreement(state.agreements[a])

\* creating an agreement under a stored id fails and changes no agreement
CreateExistingRefused ==
    /\ \A r \in CreateDaoRequests, overflow_checks \in BOOLEAN :
          (/\ artifact = "logic_dao"
           /\ r.id \in DOMAIN dao_agreements
           /\ create_dao_agreement(r.id, r.title, r.participants, r.milestones,
                                   r.voting_threshold, r.total_funding,
                                   overflow_checks))
          => /\ response' # Ok
             /\ UNCHANGED dao_agreements
    /\ \A r \in CreateAgreementRequests :
          (/\ artifact = "dao_agreement"
           /\ r.id \in DOMAIN state.agreements
           /\ create_agreement("p1", r.id, r.title, r.milestones,
                               r.voting_threshold))
          => /\ response' # Ok
             /\ UNCHANGED state

\* C28: every stored agreement, in every reachable state, has a voting
\* threshold between 50 and 100, at least one milestone and pairwise
\* distinct milestone ids, also after add_milestone_to_agreement; creating
\* an agreement whose id already exists fails and leaves the existing
\* agreement unchanged.
C28_AgreementsWellFormed ==
    []EveryAgreementWellFormed /\ [][CreateExistingRefused]_vars

\* An agreement that gained a milestone is stored, and a second agreement
\* under its id was refused.
C28_GrownAgreementNotReplaced ==
    /\ artifact = "logic_dao"
    /\ response = "Err: Agreement with this ID already exists"
    /\ \E a \in DOMAIN dao_agreements : Len(dao_agreements[a].milestones) >= 3

(***************************************************************************)
(* canisters/dao_agreement: the milestone condition evaluator.             *)
(*                                                                         *)
(* Here a milestone's type carries its payload, and ic_cdk::api::time() is *)
(* an input of the message: every call of it within one message returns    *)
(* the same value.                                                         *)
(***************************************************************************)
MaxTime == 2       \* ic_cdk::api::time() and the release times are 0..MaxTime

Times == 0..MaxTime

DocumentSignature(required_doc_id) ==
    [kind |-> "DocumentSignature", required_doc_id |-> required_doc_id]

ManualApproval == [kind |-> "ManualApproval"]

TimeRelease(release_time) == [kind |-> "TimeRelease", release_time |-> release_time]

MultiCondition(required_docs, requires_vote, min_time) ==
    [kind |-> "MultiCondition", required_docs |-> required_docs,
     requires_vote |-> requires_vote, min_time |-> min_time]

MilestoneTypes ==
    { DocumentSignature(d) : d \in {"d1", "d2"} }
    \cup { ManualApproval }
    \cup { TimeRelease(t) : t \in Times }
    \cup { MultiCondition(ds, v, t) :
              ds \in {<<>>, <<"d1">>, <<"d1", "d2">>}, v \in BOOLEAN,
              t \in {None} \cup {Some(x) : x \in Times} }

\* `documents.iter().find(|doc| doc.doc_id == id).map(|doc|
\* doc.is_signed_by_all).unwrap_or(false)`
document_signed(agreement, doc_id) ==
    LET d == Position(agreement.documents, doc_id)
    IN  IF d = 0 THEN FALSE ELSE agreement.documents[d].is_signed_by_all

\* The evaluator without the time test of MultiCondition.
check_milestone_conditions_NoMinTime(st, agreement_id, milestone_id, now) ==
    IF agreement_id \notin DOMAIN st.agreements
    THEN FALSE
    ELSE LET agreement == st.agreements[agreement_id]
             m == Position(agreement.milestones, milestone_id)
         IN  IF m = 0
             THEN FALSE
             ELSE LET type == agreement.milestones[m].milestone_type
                  IN  CASE type.kind = "DocumentSignature" ->
                               document_signed(agreement, type.required_doc_id)
                        [] type.kind = "TimeRelease" -> now >= type.release_time
                        [] type.kind = "MultiCondition" ->
                               \A i \in 1..Len(type.required_docs) :
                                   document_signed(agreement, type.required_docs[i])
                        [] type.kind = "ManualApproval" -> TRUE

\* check_milestone_conditions, reading the state `st` at time `now`
check_milestone_conditions(st, agreement_id, milestone_id, now) ==
    IF agreement_id \notin DOMAIN st.agreements
    THEN FALSE
    ELSE LET agreement == st.agreements[agreement_id]
             m == Position(agreement.milestones, milestone_id)
         IN  IF m = 0
             THEN FALSE
             ELSE LET type == agreement.milestones[m].milestone_type
                  IN  CASE type.kind = "DocumentSignature" ->
                               document_signed(agreement, type.required_doc_id)
                        [] type.kind = "TimeRelease" -> now >= type.release_time
                        [] type.kind = "MultiCondition" ->
                               LET docs_signed ==
                                       \A i \in 1..Len(type.required_docs) :
                                           document_signed(agreement,
                                                           type.required_docs[i])
                                   time_passed ==
                                       IF type.min_time = None
                                       THEN TRUE
                                       ELSE now >= type.min_time[1]
                               IN  docs_signed /\ time_passed
                        [] type.kind = "ManualApproval" -> TRUE

\* A bool as the caller reads it
BoolText(b) == IF b THEN "true" ELSE "false"

\* One evaluation: the state is borrowed, read and released.
evaluate_milestone(agreement_id, milestone_id, now) ==
    /\ artifact = "dao_agreement"
    /\ DaoFrame
    /\ Reply(BoolText(check_milestone_conditions(state, agreement_id,
                                                 milestone_id, now)))

\* A DocumentRef of a restored agreement.  Document ids are not validated, so
\* two documents of one agreement may share an id.
TypedDocument(id, signed) ==
    [id |-> id, required_signers |-> {"p1", "p2"},
     current_signers |-> IF signed THEN {"p1", "p2"} ELSE {},
     is_signed_by_all |-> signed]

TypedDocuments == { TypedDocument(id, s) : id \in {"d1", "d2"}, s \in BOOLEAN }

DocumentVectors ==
    {<<>>} \cup { <<d>> : d \in TypedDocuments }
           \cup { <<d, e>> : d \in TypedDocuments, e \in TypedDocuments }

\* A CanisterState as post_upgrade restores it: agreement "a1" with one
\* milestone of any type.
TypedStates ==
    { [agreements |->
          Insert(EmptyMap, "a1",
              [creator |-> "p1", participants |-> {"p2"},
               documents |-> docs,
               milestones |->
                   << [id |-> 1, milestone_type |-> type, amount |-> 1,
                       status |-> s, votes |-> EmptyMap,
                       completed_at |-> "None"] >>,
               voting_threshold |-> 60, status |-> "Active"]),
       agreement_balances |-> EmptyMap,
       events |-> <<>>,
       ledger_canister_id |-> Ledger,
       admin |-> "p3"] :
      docs \in DocumentVectors, type \in MilestoneTypes,
      s \in {"Pending", "Approved"} }

InitConditions ==
    /\ artifact = "dao_agreement"
    /\ response = "none"
    /\ state \in TypedStates
    /\ calls = [c \in CallIds |-> IdleCall]
    /\ transfers = [m \in Memos |-> 0]
    /\ LogicDaoIdle
    /\ RegistryIdle

NextConditions ==
    \/ \E id \in DaoAgreementIds, m \in {1, 2}, now \in Times :
          evaluate_milestone(id, m, now)
    \/ \E caller \in {"p2", "p3", "p4"}, d \in {"d1", "d2"} :
          dao_sign_document(caller, "a1", d)

SpecConditions == InitConditions /\ [][NextConditions]_vars

(***************************************************************************)
(* Claims about signing in the escrow canister and its milestone           *)
(* conditions.                                                             *)
(***************************************************************************)
\* The calls of sign_document that pass every check of the handler.
SignAccepted(caller, agreement_id, doc_id) ==
    /\ is_participant(agreement_id, caller)
    /\ LET docs == state.agreements[agreement_id].documents
       IN  /\ Position(docs, doc_id) # 0
           /\ caller \in docs[Position(docs, doc_id)].required_signers

\* The state with the caller's signature on the document.
WithSignature(st, caller, agreement_id, doc_id) ==
    LET agreement == st.agreements[agreement_id]
        d == Position(agreement.documents, doc_id)
        signers == agreement.documents[d].current_signers \cup {caller}
    IN  [st EXCEPT !.agreements[agreement_id].documents[d] =
            [@ EXCEPT !.current_signers = signers,
                      !.is_signed_by_all = @.required_signers \subseteq signers]]

\* The status the claim gives a milestone after the signature, at time `now`.
StatusAfterSigning(st, agreement_id, milestone, now) ==
    IF /\ milestone.status = "Pending"
       /\ check_milestone_conditions(st, agreement_id, milestone.id, now)
    THEN IF milestone.milestone_type.kind = "DocumentSignature"
         THEN "Approved"
         ELSE "ReadyForVoting"
    ELSE milestone.status

ReferencedDocumentSigned(agreement, doc_id) ==
    \E i \in 1..Len(agreement.documents) :
        /\ agreement.documents[i].id = doc_id
        /\ \A j \in 1..(i - 1) : agreement.documents[j].id # doc_id
        /\ agreement.documents[i].is_signed_by_all

\* The value the claim gives the evaluator, case by case.
ConditionTable(st, agreement_id, milestone_id, now) ==
    /\ agreement_id \in DOMAIN st.agreements
    /\ \E i \in 1..Len(st.agreements[agreement_id].milestones) :
          LET agreement == st.agreements[agreement_id]
              milestone == agreement.milestones[i]
              type == milestone.milestone_type
          IN  /\ milestone.id = milestone_id
              /\ type.kind = "DocumentSignature"
                    => ReferencedDocumentSigned(agreement, type.required_doc_id)
              /\ type.kind = "TimeRelease" => now >= type.release_time
              /\ type.kind = "MultiCondition"
                    => /\ \A k \in 1..Len(type.required_docs) :
                             ReferencedDocumentSigned(agreement, type.required_docs[k])
                       /\ type.min_time = None \/ now >= type.min_time[1]

\* The state with requires_vote of a MultiCondition milestone negated.
OtherVoteFlag(st) ==
    [st EXCEPT !.agreements["a1"].milestones[1].milestone_type =
        IF @.kind = "MultiCondition"
        THEN [@ EXCEPT !.requires_vote = ~@]
        ELSE @]

EvaluatorMatchesTable ==
    \A id \in DaoAgreementIds, m \in {1, 2}, now \in Times :
        /\ check_milestone_conditions(state, id, m, now)
              = ConditionTable(state, id, m, now)
        /\ check_milestone_conditions(OtherVoteFlag(state), id, m, now)
              = check_milestone_conditions(state, id, m, now)

EvaluationReadsOnly ==
    \A id \in DaoAgreementIds, m \in {1, 2}, now \in Times :
        evaluate_milestone(id, m, now)
        => /\ state' = state
           /\ response' \in {"true", "false"}
           /\ BoolText(ConditionTable(state, id, m, now)) = response'

\* C30: evaluating a milestone's condition changes no state, and the value
\* is: DocumentSignature, the referenced document exists and is fully signed;
\* TimeRelease{t}, the time is at least t; ManualApproval, true;
\* MultiCondition, every listed document exists and is fully signed and
\* min_time is absent or reached, whatever requires_vote is; an unknown
\* agreement or milestone, false.
C30_EvaluatorTable == []EvaluatorMatchesTable /\ [][EvaluationReadsOnly]_vars

\* C30: a MultiCondition milestone whose documents are all signed has been
\* evaluated before its min_time and found not ready.
C30_HeldBackByMinTime ==
    /\ response = "false"
    /\ LET agreement == state.agreements["a1"]
           type == agreement.milestones[1].milestone_type
       IN  /\ type.kind = "MultiCondition"
           /\ type.required_docs = <<"d1", "d2">>
           /\ type.min_time = Some(MaxTime)
           /\ \A k \in 1..Len(type.required_docs) :
                 ReferencedDocumentSigned(agreement, type.required_docs[k])

(***************************************************************************)
(* Claims about re-voting.                                                 *)
(***************************************************************************)
RevoteThresholds == {50, 60, 67, 100}

\* The store of InitVote with the thresholds of RevoteThresholds.
InitRevote ==
    /\ InitVote
    /\ dao_agreements["a1"].voting_threshold \in RevoteThresholds

SpecRevote == InitRevote /\ [][NextVote]_vars

\* C31: a voter has one vote per milestone.  A vote cast by a voter who has
\* already voted on a VotingActive milestone replaces that voter's vote and
\* leaves every other vote alone; the decision is taken on the counts of the
\* map after the replacement, so a switch from reject to approve raises the
\* approvals by one and lowers the rejections by one.
C31_RevoteReplaces ==
    [][\A mid \in {1, 2}, approve \in BOOLEAN :
          LET before == dao_agreements["a1"]
              i == Position(before.milestones, mid)
              voter == DebugFmt(owner)
          IN  (/\ i # 0
               /\ before.milestones[i].status = "VotingActive"
               /\ voter \in DOMAIN before.milestones[i].votes
               /\ vote_on_milestone("a1", mid, approve))
              => LET old == before.milestones[i].votes
                     new == dao_agreements'["a1"].milestones[i].votes
                     n == Cardinality(before.participants) + 1
                 IN  /\ response' \in OkVoteReplies
                     /\ DOMAIN new = DOMAIN old
                     /\ new[voter] = approve
                     /\ \A v \in DOMAIN old \ {voter} : new[v] = old[v]
                     /\ (~old[voter] /\ approve)
                           => /\ approval_votes(new) = approval_votes(old) + 1
                              /\ rejection_votes(new) = rejection_votes(old) - 1
                     /\ (old[voter] /\ ~approve)
                           => /\ approval_votes(new) = approval_votes(old) - 1
                              /\ rejection_votes(new) = rejection_votes(old) + 1
                     /\ dao_agreements'["a1"].milestones[i].status
                           = QuorumStatus(n, before.voting_threshold, new)]_vars

\* C31 witness: the creator and one participant at threshold 100; both votes
\* are approvals and the creator's, cast on the VotingActive milestone, has
\* just approved it.
C31_SwitchedVoteApproves ==
    /\ response = VoteReply("Approved")
    /\ Cardinality(dao_agreements["a1"].participants) = 1
    /\ dao_agreements["a1"].voting_threshold = 100
    /\ dao_agreements["a1"].milestones[1].status = "Approved"
    /\ dao_agreements["a1"].milestones[1].votes =
           Insert(Insert(EmptyMap, DebugFmt("p2"), TRUE), DebugFmt(owner), TRUE)

(***************************************************************************)
(* Claims about the escrow's solvency.                                     *)
(***************************************************************************)
\* The amount of a stored milestone, 0 when there is none.
AmountOf(agreement_id, milestone_id) ==
    IF agreement_id \notin DOMAIN state.agreements
    THEN 0
    ELSE LET milestones == state.agreements[agreement_id].milestones
             m == Position(milestones, milestone_id)
         IN  IF m = 0 THEN 0 ELSE milestones[m].amount

\* `count` transfers of `amount` each
RECURSIVE Paid(_, _)
Paid(count, amount) ==
    IF count = 0 THEN 0 ELSE amount + Paid(count - 1, amount)

\* What the ledger has transferred out for an agreement.
TransferredOut(agreement_id) ==
    Paid(transfers[<<agreement_id, 1>>], AmountOf(agreement_id, 1))
    + Paid(transfers[<<agreement_id, 2>>], AmountOf(agreement_id, 2))
    + Paid(transfers[<<agreement_id, 3>>], AmountOf(agreement_id, 3))

\* C32: whatever the interleaving of fund_agreement and execute_milestone
\* calls, the amount transferred out for an agreement never exceeds the
\* amount funded into it.  No fund_agreement call completes in a run of the
\* canister and nothing is transferred before the first execution reaches
\* its transfer, so the amount funded into the agreement is the balance that
\* execution read.
C32_NeverOverspent ==
    calls[1].milestone_amount > 0
    => TransferredOut(calls[1].agreement_id) <= calls[1].current_balance

(***************************************************************************)
(* Claims about the canister's state cell.                                 *)
(***************************************************************************)
\* C33: no update operation of the escrow canister borrows the state cell
\* while it holds a mutable borrow of it, so no call ends in a trap: a call
\* on valid input completes with its result.
C33_NoCallTraps == artifact = "dao_agreement" => response # Trap

(***************************************************************************)
(* Claims about the milestones of the replicated logic's agreements.       *)
(***************************************************************************)
\* The ids of the milestones an agreement of the store holds.
StoredMilestoneIds(store, agreement_id) ==
    IF agreement_id \notin DOMAIN store
    THEN {}
    ELSE { store[agreement_id].milestones[i].id :
              i \in 1..Len(store[agreement_id].milestones) }

\* C34: a milestone that create_dao_agreement or add_milestone_to_agreement
\* has just stored is Pending, has no votes and no completed_at, whatever
\* the caller supplied.
C34_MilestonesStartPending ==
    [][\A id \in DOMAIN dao_agreements' :
          \A i \in 1..Len(dao_agreements'[id].milestones) :
              LET milestone == dao_agreements'[id].milestones[i]
              IN  milestone.id \notin StoredMilestoneIds(dao_agreements, id)
                  => /\ milestone.status = "Pending"
                     /\ milestone.votes = EmptyMap
                     /\ milestone.completed_at = "None"]_vars

\* C35: in every reachable state of the replicated logic, the amounts of an
\* agreement's milestones add up to at most its total_funding, also after
\* add_milestone_to_agreement has appended a milestone.
C35_MilestonesWithinFunding ==
    \A id \in DOMAIN dao_agreements :
        SumAmounts(dao_agreements[id].milestones) <= dao_agreements[id].total_funding

(***************************************************************************)
(* Claims about votes and statuses in the escrow canister.                 *)
(***************************************************************************)
VotedTypes == {"ManualApproval", "TimeRelease", "MultiCondition"}

\* Every Approved milestone of a voted type has the approvals its
\* agreement's participant count and threshold require.
ApprovedHasQuorum ==
    \A id \in DOMAIN state.agreements :
        LET agreement == state.agreements[id]
        IN  \A i \in 1..Len(agreement.milestones) :
                (/\ agreement.milestones[i].milestone_type \in VotedTypes
                 /\ agreement.milestones[i].status = "Approved")
                => approval_votes(agreement.milestones[i].votes)
                       >= required_votes(agreement)

\* An add_participant by the creator or the admin with a new participant
\* enlarges the participant set.
AddParticipantEnlarges ==
    \A caller \in Principals, id \in DaoAgreementIds, p \in Principals :
        (/\ id \in DOMAIN state.agreements
         /\ caller \in {state.agreements[id].creator, state.admin}
         /\ p \notin state.agreements[id].participants
         /\ dao_add_participant(caller, id, p))
        => state'.agreements[id].participants
               = state.agreements[id].participants \cup {p}

Members(agreement) == {agreement.creator} \cup agreement.participants

\* Every voter of every milestone is a member of its agreement, so a vote
\* map never holds more votes than the agreement has members.
VotersAreMembers ==
    \A id \in DOMAIN state.agreements :
        LET agreement == state.agreements[id]
        IN  \A i \in 1..Len(agreement.milestones) :
                LET votes == agreement.milestones[i].votes
                IN  /\ DOMAIN votes \subseteq Members(agreement)
                    /\ approval_votes(votes) + rejection_votes(votes)
                           <= total_participants(agreement)

VoteRefusals ==
    { "Err: Only agreement participants can vote", "Err: Milestone not found",
      NotReadyForVoting }

\* A vote by a caller who is not a member of the agreement is refused.
OutsiderVoteRefused ==
    \A caller \in Principals, m \in DaoMilestoneIds, approve \in BOOLEAN :
        (/\ "a1" \in DOMAIN state.agreements
         /\ caller \notin Members(state.agreements["a1"])
         /\ vote_milestone(caller, "a1", m, approve))
        => response' \in VoteRefusals

NextDaoTwoCalls ==
    \/ \E r \in CreateAgreementRequests :
          create_agreement("p1", r.id, r.title, r.milestones, r.voting_threshold)
    \/ \E caller \in {"p1", "p4"}, id \in DaoAgreementIds, p \in {"p2", "p4"} :
          dao_add_participant(caller, id, p)
    \/ \E caller \in {"p2", "p3", "p4"}, d \in {"d1", "d2"} :
          dao_sign_document(caller, "a1", d)
    \/ \E caller \in {"p1", "p4"}, amount \in {0, 1} :
          fund_agreement(caller, "a1", amount)
    \/ \E caller \in {"p2", "p3", "p4"}, m \in DaoMilestoneIds, approve \in BOOLEAN :
          vote_milestone(caller, "a1", m, approve)
    \/ \E caller \in {"p1", "p3"}, lid \in {Anonymous, Ledger} :
          set_ledger_canister_id(caller, lid)
    \/ \E c \in {1, 2}, id \in DaoAgreementIds, m \in DaoMilestoneIds :
          execute_milestone_begin(c, id, m)
    \/ \E c \in {1, 2}, reply \in {"Ok", "Err", "Reject"} :
          execute_milestone_resume(c, reply)

NextLifecycle == NextDaoTwoCalls \/ NextLogicDao

SpecLifecycle == InitEscrow /\ [][NextLifecycle]_vars

\* What a step may do to a milestone's status once it is decided.
StatusKept(before, after) ==
    /\ before \in {"Executed", "Rejected"} => after = before
    /\ before = "Approved" => after \in {"Approved", "Executed"}

\* The milestones of a store of agreements keep their places and their
\* decided statuses from `old` to `new`.
DecidedStatusesKept(old, new) ==
    \A id \in DOMAIN old :
        /\ id \in DOMAIN new
        /\ Len(new[id].milestones) >= Len(old[id].milestones)
        /\ \A i \in 1..Len(old[id].milestones) :
              /\ new[id].milestones[i].id = old[id].milestones[i].id
              /\ StatusKept(old[id].milestones[i].status,
                            new[id].milestones[i].status)

\* C38: Executed and Rejected are terminal: no vote, sign, fund, execute or
\* add-participant step, in any interleaving and including the resumption of
\* an execution after its transfer, changes the status of a milestone that
\* is Executed or Rejected, and an Approved milestone can only become
\* Executed.
C38_DecidedStatusesFinal ==
    [][/\ DecidedStatusesKept(state.agreements, state'.agreements)
       /\ DecidedStatusesKept(dao_agreements, dao_agreements')]_vars

\* C38 witness (canister): two executions of one milestone overlapped; the
\* second resumed after its transfer and found the milestone Executed.
C38_ResumedOnExecuted ==
    /\ calls[1].pc = "done" /\ calls[1].result = Ok
    /\ calls[2].pc = "done" /\ calls[2].result = Ok
    /\ SameMilestone(1, 2)
    /\ MilestoneOf(state, calls[1].agreement_id, calls[1].milestone_id).status
           = "Executed"

(***************************************************************************)
(* Claims about reaching a decision in the replicated logic.               *)
(***************************************************************************)
\* Every call is an approving vote on a milestone of the stored agreement.
NextApprove == \E m \in {1, 2} : vote_on_milestone("a1", m, TRUE)

\* Approving votes keep being cast on milestone 1 as long as they change
\* anything.
SpecApprove ==
    InitRevote /\ [][NextApprove]_vars /\ WF_vars(vote_on_milestone("a1", 1, TRUE))

\* C39: votes are recorded under the identity of the participant casting
\* them, so whatever the number of voters and the threshold, a milestone
\* that is ReadyForVoting reaches Approved once approving votes are cast.
C39_ApprovalReachable ==
    (dao_agreements["a1"].milestones[1].status = "ReadyForVoting")
    ~> (dao_agreements["a1"].milestones[1].status = "Approved")

\* A DaoAgreement context whose store holds agreement a1 as
\* create_dao_agreement stores it, with one Pending milestone of type
\* ManualApproval, whose release condition always holds.
InitPending ==
    /\ artifact = "logic_dao"
    /\ response = "none"
    /\ DaoIdle
    /\ RegistryIdle
    /\ is_private = FALSE
    /\ context_type = "DaoAgreement"
    /\ dao_agreements \in
          { Insert(EmptyMap, "a1",
                   NewDaoAgreement("a1", ps, << Milestone(1, 1, "Pending", EmptyMap) >>,
                                   threshold, 1)) :
              ps \in {{}, {"p2"}}, threshold \in RevoteThresholds }
    /\ participants = {owner}
    /\ permissions = Insert(EmptyMap, DebugFmt(owner), "Admin")
    /\ documents = EmptyMap
    /\ document_signatures = EmptyMap
    /\ consents = EmptyMap
    /\ joined_contexts = EmptyMap
    /\ identity_mappings = EmptyMap

\* The agreement operations of the logic, each taken again and again.
SpecPending ==
    /\ InitPending
    /\ [][NextLogicDao]_vars
    /\ WF_vars(NextLogicDao)
    /\ \A approve \in BOOLEAN : SF_vars(vote_on_milestone("a1", 1, approve))
    /\ SF_vars(execute_milestone("a1", 1))

\* C40: a Pending milestone of the replicated logic whose release condition
\* holds is not stuck: the module's operations move it to ReadyForVoting or
\* Approved.
C40_PendingMovesOn ==
    (dao_agreements["a1"].milestones[1].status = "Pending")
    ~> (dao_agreements["a1"].milestones[1].status \in {"ReadyForVoting", "Approved"})
====
